---- MODULE Spec2Model ----
(***************************************************************************)
(* BidSmart-AI: the resilience wrapper (retryOperation, withTimeout), the  *)
(* extraction gateway (extractRFPData) and the agent pipeline              *)
(* (Workstation.runPipeline), modelled from services/orchestrator.ts and   *)
(* components/Workstation.tsx.                                             *)
(*                                                                         *)
(* Error messages are sequences of one-character strings, so that the      *)
(* substring tests of retryOperation (errString.includes(...)) and the     *)
(* template literal of withTimeout are computed, not assumed.              *)
(***************************************************************************)
EXTENDS Integers, Sequences, FiniteSets, TLC

\* ---------------------------------------------------------------------
\* Bounds of the model
\* ---------------------------------------------------------------------
\* largest `retries` argument passed to retryOperation by the harness
MaxRetriesArg == 3
\* largest number of requirements in one extraction response
MaxProducts == 2
\* number of pipeline runs (clicks on "Run Agents") explored
MaxRuns == 2

\* ---------------------------------------------------------------------
\* Text: literals of the source as character sequences
\* ---------------------------------------------------------------------
\* "429"
Kw429 ==
    <<"4", "2", "9">>
\* "quota"
KwQuota ==
    <<"q", "u", "o", "t", "a">>
\* "resource_exhausted"
KwResourceExhausted ==
    <<"r", "e", "s", "o", "u", "r", "c", "e", "_", "e", "x", "h", "a", "u", "s", "t", "e", "d">>
\* "timeout"
KwTimeout ==
    <<"t", "i", "m", "e", "o", "u", "t">>
\* "aborted"
KwAborted ==
    <<"a", "b", "o", "r", "t", "e", "d">>
\* "503"
Kw503 ==
    <<"5", "0", "3">>
\* "overloaded"
KwOverloaded ==
    <<"o", "v", "e", "r", "l", "o", "a", "d", "e", "d">>
\* "Operation timed out after "
MsgTimedOutPrefix ==
    <<"O", "p", "e", "r", "a", "t", "i", "o", "n", " ", "t", "i", "m", "e", "d", " ", "o", "u", "t", " ", "a", "f", "t", "e", "r", " ">>
\* "ms"
MsgMsSuffix ==
    <<"m", "s">>
\* "No response from AI"
MsgNoResponse ==
    <<"N", "o", " ", "r", "e", "s", "p", "o", "n", "s", "e", " ", "f", "r", "o", "m", " ", "A", "I">>
\* "Unexpected token 'x', '"
MsgUnexpectedPrefix ==
    <<"U", "n", "e", "x", "p", "e", "c", "t", "e", "d", " ", "t", "o", "k", "e", "n", " ", "'", "x", "'", ",", " ", "\"">>
\* "' is not valid JSON"
MsgNotValidJson ==
    <<"\"", " ", "i", "s", " ", "n", "o", "t", " ", "v", "a", "l", "i", "d", " ", "J", "S", "O", "N">>
\* "429 RESOURCE_EXHAUSTED"
ApiMsgResourceExhausted ==
    <<"4", "2", "9", " ", "R", "E", "S", "O", "U", "R", "C", "E", "_", "E", "X", "H", "A", "U", "S", "T", "E", "D">>
\* "Quota exceeded"
ApiMsgQuota ==
    <<"Q", "u", "o", "t", "a", " ", "e", "x", "c", "e", "e", "d", "e", "d">>
\* "The model is overloaded"
ApiMsgOverloaded ==
    <<"T", "h", "e", " ", "m", "o", "d", "e", "l", " ", "i", "s", " ", "o", "v", "e", "r", "l", "o", "a", "d", "e", "d">>
\* "Request aborted"
ApiMsgAborted ==
    <<"R", "e", "q", "u", "e", "s", "t", " ", "a", "b", "o", "r", "t", "e", "d">>
\* "Deadline timeout"
ApiMsgTimeout ==
    <<"D", "e", "a", "d", "l", "i", "n", "e", " ", "t", "i", "m", "e", "o", "u", "t">>
\* "400 Bad Request"
ApiMsgBadRequest ==
    <<"4", "0", "0", " ", "B", "a", "d", " ", "R", "e", "q", "u", "e", "s", "t">>
\* "{'code':503}"
ApiJson503 ==
    <<"{", "\"", "c", "o", "d", "e", "\"", ":", "5", "0", "3", "}">>
\* "{}"
ErrorJson ==
    <<"{", "}">>
\* "{'qty':429x"
RawQty429 ==
    <<"{", "\"", "q", "t", "y", "\"", ":", "4", "2", "9", "x">>
\* "{x"
RawBrace ==
    <<"{", "x">>

\* ---------------------------------------------------------------------
\* Text: the string operations the source uses
\* ---------------------------------------------------------------------
UpperChars ==
    <<"A", "B", "C", "D", "E", "F", "G", "H", "I", "J", "K", "L", "M",
      "N", "O", "P", "Q", "R", "S", "T", "U", "V", "W", "X", "Y", "Z">>

LowerChars ==
    <<"a", "b", "c", "d", "e", "f", "g", "h", "i", "j", "k", "l", "m",
      "n", "o", "p", "q", "r", "s", "t", "u", "v", "w", "x", "y", "z">>

DigitChars ==
    <<"0", "1", "2", "3", "4", "5", "6", "7", "8", "9">>

\* one character of String.prototype.toLowerCase
LowerChar(c) ==
    IF \E i \in 1..Len(UpperChars) : UpperChars[i] = c
    THEN LowerChars[CHOOSE i \in 1..Len(UpperChars) : UpperChars[i] = c]
    ELSE c

\* String.prototype.toLowerCase
ToLowerCase(s) ==
    [i \in 1..Len(s) |-> LowerChar(s[i])]

\* String.prototype.includes
Includes(s, sub) ==
    \E i \in 1..(Len(s) - Len(sub) + 1) : SubSeq(s, i, i + Len(sub) - 1) = sub

RECURSIVE Digits(_)
\* a non-negative integer inside a template literal: its decimal digits
Digits(n) ==
    IF n < 10 THEN <<DigitChars[n + 1]>>
    ELSE Digits(n \div 10) \o <<DigitChars[(n % 10) + 1]>>

\* ---------------------------------------------------------------------
\* Values, errors and outcomes of promises
\* ---------------------------------------------------------------------
\* a thrown value: its .message and what JSON.stringify makes of it
MkError(message, json) ==
    [message |-> message, json |-> json]

\* new Error(msg): no enumerable fields, JSON.stringify gives "{}"
NewError(message) ==
    MkError(message, ErrorJson)

NoErr ==
    MkError(<<>>, <<>>)

\* Partial<RFP> as produced by extraction; src is a ghost tag telling where
\* the value came from ("service", "demo", "fallback"; "null" is JS null)
MkValue(src, products, tests) ==
    [src |-> src, products |-> products, tests |-> tests]

EmptyTests ==
    [isArray |-> TRUE, items |-> <<>>]

Null ==
    MkValue("null", <<>>, EmptyTests)

Resolved(v) ==
    [kind |-> "value", val |-> v, err |-> NoErr]

Rejected(e) ==
    [kind |-> "error", val |-> Null, err |-> e]

Pending ==
    [kind |-> "none", val |-> Null, err |-> NoErr]

\* ---------------------------------------------------------------------
\* retryOperation: classification of the caught error and backoff
\* ---------------------------------------------------------------------
\* (error.message || JSON.stringify(error)).toLowerCase()
ErrString(e) ==
    ToLowerCase(IF e.message # <<>> THEN e.message ELSE e.json)

IsQuota(errString) ==
    \/ Includes(errString, Kw429)
    \/ Includes(errString, KwQuota)
    \/ Includes(errString, KwResourceExhausted)

IsTimeout(errString) ==
    \/ Includes(errString, KwTimeout)
    \/ Includes(errString, KwAborted)

\* the condition of the retry branch
ShouldRetry(errString) ==
    \/ IsQuota(errString)
    \/ IsTimeout(errString)
    \/ Includes(errString, Kw503)
    \/ Includes(errString, KwOverloaded)

\* a mutant of NextDelay: constant backoff
NextDelayConstant(d) ==
    d

\* the delay handed to the recursive call
NextDelay(d) ==
    d * 2

\* a mutant of RetriesExhausted: one retry too many
RetriesExhaustedLate(r) ==
    r < 0

\* if (retries <= 0) throw error
RetriesExhausted(r) ==
    r <= 0

\* ---------------------------------------------------------------------
\* withTimeout: what the timer callback settles the race with
\* ---------------------------------------------------------------------
TimeoutError(ms) ==
    NewError(MsgTimedOutPrefix \o Digits(ms) \o MsgMsSuffix)

\* a mutant of TimerOutcome: the fallback is ignored
TimerOutcomeNoFallback(ms, fallback) ==
    Rejected(TimeoutError(ms))

\* the setTimeout callback of withTimeout
TimerOutcome(ms, fallback) ==
    IF fallback # Null THEN Resolved(fallback) ELSE Rejected(TimeoutError(ms))

\* ---------------------------------------------------------------------
\* The extraction service and aiCall (extractRFPData)
\* ---------------------------------------------------------------------
SeqsUpTo(S, n) ==
    UNION {[1..k -> S] : k \in 0..n}

\* requirements the service may put in a response; a response may leave
\* a product's description out (aiCall copies p.description as it is)
ProductPool ==
    { [itemNo |-> "ITEM-A", description |-> "plain"],
      [itemNo |-> "ITEM-B", description |-> "undefined"] }

TestPool ==
    { [id |-> "T1", perUnit |-> TRUE, perLot |-> FALSE] }

\* errors thrown by ai.models.generateContent
ApiErrors ==
    { NewError(ApiMsgResourceExhausted), NewError(ApiMsgQuota),
      NewError(ApiMsgOverloaded), NewError(ApiMsgAborted),
      NewError(ApiMsgTimeout), NewError(ApiMsgBadRequest),
      MkError(<<>>, ApiJson503) }

NoProducts ==
    [present |-> FALSE, items |-> <<>>]

NoTests ==
    [present |-> FALSE, isArray |-> TRUE, items |-> <<>>]

MkResponse(status, err, hasText, wellFormed, raw, products, tests) ==
    [status |-> status, err |-> err, hasText |-> hasText,
     wellFormed |-> wellFormed, raw |-> raw, products |-> products,
     tests |-> tests]

\* what generateContent can answer: an API error, a response without text,
\* text that is not JSON, or JSON with or without products / tests
ServiceResponses ==
    { MkResponse("apiError", e, FALSE, FALSE, <<>>, NoProducts, NoTests) :
        e \in ApiErrors }
    \cup { MkResponse("ok", NoErr, FALSE, FALSE, <<>>, NoProducts, NoTests) }
    \cup { MkResponse("ok", NoErr, TRUE, FALSE, raw, NoProducts, NoTests) :
        raw \in {RawBrace, RawQty429} }
    \cup { MkResponse("ok", NoErr, TRUE, TRUE, <<>>, p, t) :
        p \in {NoProducts}
              \cup { [present |-> TRUE, items |-> s] :
                       s \in SeqsUpTo(ProductPool, MaxProducts) },
        t \in {NoTests}
              \cup { [present |-> TRUE, isArray |-> TRUE, items |-> s] :
                       s \in SeqsUpTo(TestPool, 1) }
              \cup { [present |-> TRUE, isArray |-> FALSE, items |-> <<>>] } }

\* the SyntaxError of JSON.parse quotes the offending text
JsonSyntaxError(raw) ==
    NewError(MsgUnexpectedPrefix \o raw \o MsgNotValidJson)

\* (parsed.products || []).map(...)
ParsedProducts(p) ==
    IF p.present THEN p.items ELSE <<>>

\* parsed.tests || []
ParsedTests(t) ==
    IF t.present THEN [isArray |-> t.isArray, items |-> t.items] ELSE EmptyTests

\* the async closure aiCall of extractRFPData, from the service's answer on
AiCall(resp) ==
    IF resp.status = "apiError" THEN Rejected(resp.err)
    ELSE IF ~resp.hasText THEN Rejected(NewError(MsgNoResponse))
    ELSE IF ~resp.wellFormed THEN Rejected(JsonSyntaxError(resp.raw))
    ELSE Resolved(MkValue("service", ParsedProducts(resp.products),
                          ParsedTests(resp.tests)))

\* ---------------------------------------------------------------------
\* Program constants
\* ---------------------------------------------------------------------
\* retryOperation(operation, retries = 3, delay = 4000)
DefaultRetries == 3
DefaultDelay == 4000
\* withTimeout(aiCall(), 150000, null)
ExtractTimeoutMs == 150000

\* arguments the harness passes to retryOperation / withTimeout
HarnessDelays == {1000, 4000}
HarnessMs == {150000, 4290}

FallbackValue ==
    MkValue("fallback", <<>>, EmptyTests)

\* ---------------------------------------------------------------------
\* State
\* ---------------------------------------------------------------------
VARIABLES
    \* retryOperation: position, the arguments of the current recursive
    \* call, the arguments of the outermost call, and its settled promise
    rPc, retries, delay, argRetries, argDelay, rResult,
    \* ghost: invocations of operation() and the sleeps performed so far
    calls, waits,
    \* withTimeout: ms, fallback, whether the timer is armed, the outcome of
    \* the last race and (ghost) who won it and what the wrapped promise gave
    wtMs, wtFallback, timerArmed, opOut, raceWinner, innerOut,
    \* wrapped promises that lost their race and are still running
    stale,
    \* runPipeline: position, the rfp prop captured by the closure, the
    \* local updatedRfp, and the number of runs started
    pc, cap, upd, runs,
    \* App state: the RFP (one selected RFP) and the catalog
    rfp, skus,
    \* Workstation state
    isRunning, activeAgents, logs, skuMatches, finalPricing,
    \* the two Phase-2 promises of the current Promise.all
    tech, pricing,
    \* ghost: Orchestrator methods invoked by the current run
    invoked,
    \* the value returned by runStrategyAnalysis, when it is called
    strategy,
    \* the RiskAnalysis returned by runRiskAssessment or handed to
    \* runStrategyAnalysis, and the ComplianceCheck handed to it
    riskAnalysis, complianceCheck

wrapperVars ==
    <<rPc, retries, delay, argRetries, argDelay, rResult, calls, waits,
      wtMs, wtFallback, timerArmed, opOut, raceWinner, innerOut, stale>>

pipeVars ==
    <<pc, cap, upd, runs, rfp, skus, isRunning, activeAgents, skuMatches,
      finalPricing, tech, pricing, invoked>>

coreVars ==
    <<strategy, riskAnalysis, complianceCheck>>

vars ==
    <<wrapperVars, pipeVars, logs, coreVars>>

\* this.log(agent, message, type); note keeps the part of the message that
\* depends on the state
LogEntry(agent, type, note) ==
    [agent |-> agent, type |-> type, note |-> note]

\* ---------------------------------------------------------------------
\* Phase 2: what performMatching, runTechnicalMatching and runPricing do
\* with the extracted requirements (scores are left abstract here)
\* ---------------------------------------------------------------------
\* the demo override of performMatching
IsDemoProduct(prod) ==
    \/ prod.itemNo = "TRF-DIST-001"
    \/ prod.description = "500kVA"

\* prod.description.includes(...) on a product without description throws;
\* the || short-circuits for itemNo TRF-DIST-001
MatchingThrowsOn(prod) ==
    /\ prod.itemNo # "TRF-DIST-001"
    /\ prod.description = "undefined"

PerformMatchingThrows(products) ==
    \E i \in 1..Len(products) : MatchingThrowsOn(products[i])

\* one SKUMatch per requirement; a top match exists for the demo product
\* and whenever the catalog is not empty
PerformMatching(products, catalog) ==
    [i \in 1..Len(products) |->
        [itemNo |-> products[i].itemNo,
         hasTop |-> IsDemoProduct(products[i]) \/ catalog # <<>>]]

\* runPricing: performMatching, then tests.forEach for every selected match
PricingThrows(products, tests, catalog) ==
    \/ PerformMatchingThrows(products)
    \/ /\ ~tests.isArray
       /\ \E i \in 1..Len(products) : PerformMatching(products, catalog)[i].hasTop

NoPricing ==
    [present |-> FALSE, lines |-> <<>>]

\* the Partial<FinalResponse> of runPricing: one line per match
PricingOf(products, catalog) ==
    [present |-> TRUE,
     lines |-> [i \in 1..Len(products) |->
                  [itemNo |-> products[i].itemNo,
                   manual |-> ~PerformMatching(products, catalog)[i].hasTop]]]

\* the events of matches.forEach in runTechnicalMatching ("report" stands
\* for the warning / success entry chosen by the score)
MatchingEvents(products, catalog) ==
    [i \in 1..Len(products) |->
        LogEntry("Technical Agent",
                 IF PerformMatching(products, catalog)[i].hasTop
                 THEN "report" ELSE "warning",
                 products[i].itemNo)]

IdleTask ==
    [state |-> "idle", products |-> <<>>, tests |-> EmptyTests]

SleepingTask(products, tests) ==
    [state |-> "sleeping", products |-> products, tests |-> tests]

Phase2Methods ==
    {"runTechnicalMatching", "runPricing", "runRiskAssessment",
     "runComplianceCheck"}

\* a mutant of JoinOutcome: the join waits for both and ignores failures
JoinOutcomeAllSettled(pState, tState) ==
    IF pState \in {"done", "failed"} /\ tState \in {"done", "failed"}
    THEN "resolved" ELSE "pending"

\* Promise.all over [runTechnicalMatching, runPricing]
JoinOutcome(pState, tState) ==
    IF pState = "failed" \/ tState = "failed" THEN "rejected"
    ELSE IF pState = "done" /\ tState = "done" THEN "resolved"
    ELSE "pending"

\* ---------------------------------------------------------------------
\* runPipeline: the continuations after each await
\* ---------------------------------------------------------------------
\* useEffect(..., [rfp]): after every update of the RFP the Workstation
\* copies an existing rfp.finalResponse into finalPricing
SyncFinalPricing(newRfp, value) ==
    IF newRfp.finalResponse.present THEN newRfp.finalResponse ELSE value

\* catch (e) { setLogs(... 'Pipeline Error'); setIsRunning(false);
\*             setActiveAgents([]) } finally { setIsRunning(false) }
AbortPipeline(entries) ==
    /\ logs' = logs \o entries \o <<LogEntry("Main Agent", "error", "pipeline")>>
    /\ isRunning' = FALSE
    /\ activeAgents' = {}
    /\ pc' = "idle"

\* !updatedRfp.products / !updatedRfp.tests: a list, even an empty one, and
\* any object are truthy
IsFalsy(list) ==
    FALSE

\* from `const updatedRfp = {...rfp, ...extraction}` to the start of
\* Promise.all; both tasks log and begin their sleep at once
AfterExtraction(val, entries) ==
    LET updatedRfp == [cap EXCEPT !.products = val.products,
                                  !.tests = val.tests]
    IN /\ upd' = updatedRfp
       /\ rfp' = updatedRfp
       /\ IF IsFalsy(updatedRfp.products) \/ IsFalsy(updatedRfp.tests)
          THEN /\ AbortPipeline(entries)
               /\ UNCHANGED <<tech, pricing, invoked>>
          ELSE /\ activeAgents' = {"Technical Agent", "Pricing Agent"}
               /\ logs' = logs \o entries
                            \o <<LogEntry("Technical Agent", "thinking", ""),
                                 LogEntry("Pricing Agent", "thinking", "")>>
               /\ tech' = SleepingTask(updatedRfp.products, updatedRfp.tests)
               /\ pricing' = SleepingTask(updatedRfp.products, updatedRfp.tests)
               /\ invoked' = invoked \cup {"runTechnicalMatching", "runPricing"}
               /\ pc' = "phase2"
               /\ UNCHANGED isRunning
       /\ finalPricing' = SyncFinalPricing(updatedRfp, finalPricing)
       /\ UNCHANGED <<cap, runs, skus, skuMatches>>

\* a mutant of ExtractionFailed: the error is swallowed and the pipeline
\* goes on with what it has
ExtractionFailedNever(out) ==
    FALSE

\* the await of extractRFPData in runPipeline throws
ExtractionFailed(out) ==
    out.kind = "error" \/ out.val = Null

\* the try / catch at the end of extractRFPData followed by runPipeline's
\* continuation, once retryOperation has settled with `out`
ExtractionSettles(out) ==
    IF ExtractionFailed(out)
    THEN /\ AbortPipeline(<<LogEntry("Main Agent", "error", "extraction")>>)
         /\ UNCHANGED <<cap, upd, runs, rfp, skus, skuMatches, finalPricing,
                        tech, pricing, invoked>>
    ELSE AfterExtraction(out.val,
                         <<LogEntry("Main Agent", "success", "extraction")>>)

\* ---------------------------------------------------------------------
\* retryOperation and withTimeout
\* ---------------------------------------------------------------------
\* operation(): () => this.withTimeout(aiCall(), ms, fallback); the request
\* is sent and the timer is armed
InvokeOperation ==
    /\ calls' = calls + 1
    /\ timerArmed' = TRUE
    /\ raceWinner' = "none"
    /\ innerOut' = Pending
    /\ opOut' = Pending

\* retryOperation after `await operation()` has settled with `out`
RetryHandles(out) ==
    /\ opOut' = out
    /\ UNCHANGED coreVars
    /\ UNCHANGED <<retries, delay, argRetries, argDelay, calls, wtMs,
                   wtFallback>>
    /\ IF \/ out.kind = "value"
          \/ RetriesExhausted(retries)
          \/ ~ShouldRetry(ErrString(out.err))
       THEN /\ rPc' = "done"
            /\ rResult' = out
            /\ waits' = waits
            /\ IF pc = "extract"
               THEN ExtractionSettles(out)
               ELSE UNCHANGED <<pipeVars, logs>>
       ELSE /\ rPc' = "sleeping"
            /\ rResult' = rResult
            /\ waits' = Append(waits, delay)
            /\ logs' = Append(logs,
                         LogEntry("Main Agent", "warning",
                                  IF IsTimeout(ErrString(out.err))
                                  THEN "Timeout" ELSE "Busy"))
            /\ UNCHANGED pipeVars

\* a caller other than the pipeline calls
\* retryOperation(() => withTimeout(aiCall(), ms, fallback), r, d)
HarnessCall(r, d, ms, fb) ==
    /\ pc = "harness"
    /\ UNCHANGED coreVars
    /\ rPc = "idle"
    /\ rPc' = "calling"
    /\ retries' = r
    /\ delay' = d
    /\ argRetries' = r
    /\ argDelay' = d
    /\ wtMs' = ms
    /\ wtFallback' = fb
    /\ InvokeOperation
    /\ UNCHANGED <<rResult, waits, stale, pipeVars, logs>>

\* a mutant of InnerSettles: clearTimeout is not called
InnerSettlesTimerKept(resp) ==
    /\ rPc = "calling"
    /\ timerArmed
    /\ timerArmed' = TRUE
    /\ raceWinner' = "promise"
    /\ innerOut' = AiCall(resp)
    /\ stale' = stale
    /\ RetryHandles(AiCall(resp))

\* the wrapped promise settles before the deadline: Promise.race takes its
\* value or error, the timer is cleared
InnerSettles(resp) ==
    /\ rPc = "calling"
    /\ timerArmed
    /\ timerArmed' = FALSE
    /\ raceWinner' = "promise"
    /\ innerOut' = AiCall(resp)
    /\ stale' = stale
    /\ RetryHandles(AiCall(resp))

\* the deadline expires first: the race takes the timer's outcome, the
\* wrapped promise keeps running
TimerFires ==
    /\ rPc = "calling"
    /\ timerArmed
    /\ timerArmed' = FALSE
    /\ raceWinner' = "timer"
    /\ innerOut' = Pending
    /\ stale' = stale + 1
    /\ RetryHandles(TimerOutcome(wtMs, wtFallback))

\* a wrapped promise that lost its race settles: nobody listens
StaleSettles ==
    /\ stale > 0
    /\ UNCHANGED coreVars
    /\ stale' = stale - 1
    /\ UNCHANGED <<rPc, retries, delay, argRetries, argDelay, rResult, calls,
                   waits, wtMs, wtFallback, timerArmed, opOut, raceWinner,
                   innerOut, pipeVars, logs>>

\* sleep(delay) is over: return this.retryOperation(operation,
\* retries - 1, delay * 2), which invokes operation() again
SleepDone ==
    /\ rPc = "sleeping"
    /\ UNCHANGED coreVars
    /\ rPc' = "calling"
    /\ retries' = retries - 1
    /\ delay' = NextDelay(delay)
    /\ InvokeOperation
    /\ UNCHANGED <<argRetries, argDelay, rResult, waits, wtMs, wtFallback,
                   stale, pipeVars, logs>>

\* ---------------------------------------------------------------------
\* runPipeline and the Orchestrator methods it awaits
\* ---------------------------------------------------------------------
\* the fixed answer of the demo intercept of extractRFPData
DemoValue ==
    MkValue("demo",
            << [itemNo |-> "TRF-DIST-001", description |-> "500kVA"],
               [itemNo |-> "CBL-HV-3C", description |-> "plain"] >>,
            [isArray |-> TRUE,
             items |-> << [id |-> "T1", perUnit |-> TRUE, perLot |-> FALSE] >>])

\* click on "Run Agents" (disabled while isRunning): runPipeline up to the
\* first sleep of extractRFPData
RunPipeline ==
    /\ pc = "idle"
    /\ UNCHANGED coreVars
    /\ ~isRunning
    /\ runs < MaxRuns
    /\ runs' = runs + 1
    /\ isRunning' = TRUE
    /\ activeAgents' = {"Main Agent"}
    /\ skuMatches' = <<>>
    /\ finalPricing' = SyncFinalPricing(rfp, NoPricing)
    /\ cap' = rfp
    /\ rfp' = [rfp EXCEPT !.status = "Processing", !.products = <<>>,
                          !.tests = EmptyTests]
    /\ invoked' = {"extractRFPData"}
    /\ logs' = <<LogEntry("Main Agent", "thinking", "")>>
    /\ pc' = "extractSleep"
    /\ UNCHANGED <<upd, skus, tech, pricing, wrapperVars>>

\* sleep(800) of extractRFPData is over. The timer of a Phase-2 task of an
\* aborted run (at most 500 ms left when its run aborted) fires before it.
ExtractWakes ==
    /\ pc = "extractSleep"
    /\ UNCHANGED coreVars
    /\ tech.state # "sleeping"
    /\ IF cap.title = "metro"
       THEN /\ logs' = Append(logs, LogEntry("Main Agent", "success", "demo"))
            /\ pc' = "demoSleep"
            /\ UNCHANGED wrapperVars
       ELSE /\ logs' = Append(logs, LogEntry("Main Agent", "info", ""))
            /\ pc' = "extract"
            /\ rPc' = "calling"
            /\ retries' = DefaultRetries
            /\ delay' = DefaultDelay
            /\ argRetries' = DefaultRetries
            /\ argDelay' = DefaultDelay
            /\ wtMs' = ExtractTimeoutMs
            /\ wtFallback' = Null
            /\ rResult' = Pending
            /\ waits' = <<>>
            /\ calls' = 1
            /\ timerArmed' = TRUE
            /\ raceWinner' = "none"
            /\ innerOut' = Pending
            /\ opOut' = Pending
            /\ stale' = stale
    /\ UNCHANGED <<cap, upd, runs, rfp, skus, isRunning, activeAgents,
                   skuMatches, finalPricing, tech, pricing, invoked>>

\* sleep(500) of the demo intercept is over: extractRFPData returns the
\* fixed products and runPipeline goes on
DemoWakes ==
    /\ pc = "demoSleep"
    /\ UNCHANGED coreVars
    /\ AfterExtraction(DemoValue, <<>>)
    /\ UNCHANGED wrapperVars

\* sleep(1000) of runPricing is over
PricingWakes ==
    /\ pricing.state = "sleeping"
    /\ UNCHANGED coreVars
    /\ IF PricingThrows(pricing.products, pricing.tests, skus)
       THEN /\ pricing' = [pricing EXCEPT !.state = "failed"]
            /\ IF pc = "phase2" /\ JoinOutcome("failed", tech.state) = "rejected"
               THEN AbortPipeline(<<>>)
               ELSE UNCHANGED <<logs, isRunning, activeAgents, pc>>
       ELSE /\ pricing' = [pricing EXCEPT !.state = "done"]
            /\ logs' = Append(logs, LogEntry("Pricing Agent", "success", ""))
            /\ UNCHANGED <<isRunning, activeAgents, pc>>
    /\ UNCHANGED <<cap, upd, runs, rfp, skus, skuMatches, finalPricing, tech,
                   invoked, wrapperVars>>

\* sleep(1500) of runTechnicalMatching is over (after the 1000 ms timer of
\* runPricing, armed in the same turn); when it completes the Promise.all,
\* runPipeline goes on to generateResponse
TechWakes ==
    /\ tech.state = "sleeping"
    /\ UNCHANGED coreVars
    /\ pricing.state # "sleeping"
    /\ LET state == IF PerformMatchingThrows(tech.products)
                    THEN "failed" ELSE "done"
           events == IF state = "done"
                     THEN MatchingEvents(tech.products, skus) ELSE <<>>
           join == IF pc = "phase2"
                   THEN JoinOutcome(pricing.state, state) ELSE "pending"
       IN /\ tech' = [tech EXCEPT !.state = state]
          /\ CASE join = "rejected" ->
                    /\ AbortPipeline(events)
                    /\ UNCHANGED <<skuMatches, finalPricing, invoked>>
               [] join = "resolved" ->
                    /\ skuMatches' = PerformMatching(tech.products, skus)
                    /\ finalPricing' = PricingOf(pricing.products, skus)
                    /\ activeAgents' = {"Response Agent"}
                    /\ invoked' = invoked \cup {"generateResponse"}
                    /\ logs' = logs \o events
                                 \o <<LogEntry("Response Agent", "thinking", "")>>
                    /\ pc' = "respond"
                    /\ UNCHANGED isRunning
               [] OTHER ->
                    /\ logs' = logs \o events
                    /\ UNCHANGED <<skuMatches, finalPricing, invoked,
                                   activeAgents, isRunning, pc>>
    /\ UNCHANGED <<cap, upd, runs, rfp, skus, pricing, wrapperVars>>

\* sleep(1000) of generateResponse is over: the run completes
ResponseWakes ==
    /\ pc = "respond"
    /\ UNCHANGED coreVars
    /\ logs' = Append(logs, LogEntry("Response Agent", "success", ""))
    /\ rfp' = [upd EXCEPT !.status = "Completed",
                          !.finalResponse = finalPricing]
    /\ activeAgents' = {}
    /\ isRunning' = FALSE
    /\ pc' = "idle"
    /\ finalPricing' = SyncFinalPricing(rfp', finalPricing)
    /\ UNCHANGED <<cap, upd, runs, skus, skuMatches, tech, pricing, invoked,
                   wrapperVars>>

\* ---------------------------------------------------------------------
\* Initial states and specifications
\* ---------------------------------------------------------------------
\* largest catalog explored
MaxSkus == 1

\* runStrategyAnalysis has not been called
NoStrategy ==
    [present |-> FALSE]

NewRfp(title) ==
    [title |-> title, status |-> "Discovered", products |-> <<>>,
     tests |-> EmptyTests, finalResponse |-> NoPricing]

InitWrapperVars ==
    /\ rPc = "idle"
    /\ retries = DefaultRetries
    /\ delay = DefaultDelay
    /\ argRetries = DefaultRetries
    /\ argDelay = DefaultDelay
    /\ rResult = Pending
    /\ calls = 0
    /\ waits = <<>>
    /\ wtMs = ExtractTimeoutMs
    /\ wtFallback = Null
    /\ timerArmed = FALSE
    /\ opOut = Pending
    /\ raceWinner = "none"
    /\ innerOut = Pending
    /\ stale = 0

InitPipeVars(position) ==
    /\ pc = position
    /\ runs = 0
    /\ rfp \in {NewRfp("plain"), NewRfp("metro")}
    /\ cap = rfp
    /\ upd = rfp
    /\ skus \in SeqsUpTo({"sku-101"}, MaxSkus)
    /\ isRunning = FALSE
    /\ activeAgents = {}
    /\ logs = <<>>
    /\ skuMatches = <<>>
    /\ finalPricing = NoPricing
    /\ tech = IdleTask
    /\ pricing = IdleTask
    /\ invoked = {}
    /\ strategy = NoStrategy
    /\ riskAnalysis = Null
    /\ complianceCheck = Null

\* the Workstation after mounting, with a discovered RFP selected
Init ==
    /\ InitWrapperVars
    /\ InitPipeVars("idle")

Next ==
    \/ RunPipeline
    \/ ExtractWakes
    \/ DemoWakes
    \/ \E resp \in ServiceResponses : InnerSettles(resp)
    \/ TimerFires
    \/ StaleSettles
    \/ SleepDone
    \/ PricingWakes
    \/ TechWakes
    \/ ResponseWakes

Spec ==
    Init /\ [][Next]_vars

\* an Orchestrator whose wrappers are called directly
InitWrapper ==
    /\ InitWrapperVars
    /\ InitPipeVars("harness")

NextWrapper ==
    \/ \E r \in 0..MaxRetriesArg, d \in HarnessDelays, ms \in HarnessMs,
          fb \in {Null, FallbackValue} : HarnessCall(r, d, ms, fb)
    \/ \E resp \in ServiceResponses : InnerSettles(resp)
    \/ TimerFires
    \/ StaleSettles
    \/ SleepDone

SpecWrapper ==
    InitWrapper /\ [][NextWrapper]_vars

\* ---------------------------------------------------------------------
\* Numbers of the matcher and the pricer: exact fractions [n, d], d > 0,
\* in lowest terms (the source computes in doubles; the model keeps the
\* exact value of every expression)
\* ---------------------------------------------------------------------
Abs(x) ==
    IF x < 0 THEN -x ELSE x

RECURSIVE Gcd(_, _)
Gcd(a, b) ==
    IF b = 0 THEN a ELSE Gcd(b, a % b)

\* the fraction n / d (d # 0) in lowest terms
Rat(n, d) ==
    LET g == Gcd(Abs(n), Abs(d))
        sgn == IF d < 0 THEN -1 ELSE 1
    IN [n |-> (sgn * n) \div g, d |-> Abs(d) \div g]

RatInt(i) ==
    [n |-> i, d |-> 1]

RatAdd(a, b) ==
    Rat(a.n * b.d + b.n * a.d, a.d * b.d)

RatSub(a, b) ==
    Rat(a.n * b.d - b.n * a.d, a.d * b.d)

RatMul(a, b) ==
    Rat(a.n * b.n, a.d * b.d)

\* a / b for b # 0
RatDiv(a, b) ==
    Rat(a.n * b.d, a.d * b.n)

RatLe(a, b) ==
    a.n * b.d <= b.n * a.d

RatLt(a, b) ==
    a.n * b.d < b.n * a.d

\* Math.abs
RatAbs(a) ==
    [n |-> Abs(a.n), d |-> a.d]

\* Math.max(a, b)
RatMax(a, b) ==
    IF RatLe(a, b) THEN b ELSE a

RECURSIVE Pow10(_)
Pow10(k) ==
    IF k = 0 THEN 1 ELSE 10 * Pow10(k - 1)

\* ---------------------------------------------------------------------
\* performMatching: parseValue and cleanStr
\* ---------------------------------------------------------------------
\* a parameter or specification value: a JS number (text is String(val))
\* or a JS string
NumVal(text) ==
    [isNum |-> TRUE, text |-> text]

StrVal(text) ==
    [isNum |-> FALSE, text |-> text]

IsDigit(c) ==
    \E i \in 1..Len(DigitChars) : DigitChars[i] = c

DigitVal(c) ==
    (CHOOSE i \in 1..Len(DigitChars) : DigitChars[i] = c) - 1

\* the characters of s that satisfy Keep, in order
RECURSIVE FilterChars(_, _)
FilterChars(s, keep) ==
    IF s = <<>> THEN <<>>
    ELSE (IF Head(s) \in keep THEN <<Head(s)>> ELSE <<>>)
         \o FilterChars(Tail(s), keep)

CharsOf(t) ==
    {t[i] : i \in 1..Len(t)}

\* s.toLowerCase().replace(/[^a-z0-9]/g, '')
CleanStr(s) ==
    FilterChars(ToLowerCase(s), CharsOf(LowerChars) \cup CharsOf(DigitChars))

\* String.prototype.trim
RECURSIVE Trim(_)
Trim(s) ==
    IF s # <<>> /\ Head(s) = " " THEN Trim(Tail(s))
    ELSE IF s # <<>> /\ s[Len(s)] = " " THEN Trim(SubSeq(s, 1, Len(s) - 1))
    ELSE s

\* the longest prefix of s made of digits
RECURSIVE DigitPrefix(_)
DigitPrefix(s) ==
    IF s # <<>> /\ IsDigit(Head(s)) THEN <<Head(s)>> \o DigitPrefix(Tail(s))
    ELSE <<>>

\* the integer written by a sequence of digits (0 for no digits)
RECURSIVE DigitsValue(_)
DigitsValue(ds) ==
    IF ds = <<>> THEN 0
    ELSE 10 * DigitsValue(SubSeq(ds, 1, Len(ds) - 1)) + DigitVal(ds[Len(ds)])

NaN ==
    [isNull |-> TRUE, val |-> RatInt(0)]

Finite(r) ==
    [isNull |-> FALSE, val |-> r]

\* parseFloat on a string of digits, dots and minus signs: the longest
\* prefix that is a decimal literal, NaN when there is none
ParseFloat(s) ==
    LET Decimal(int, frac) ==
            IF int = <<>> /\ frac = <<>> THEN NaN
            ELSE Finite(RatAdd(RatInt(DigitsValue(int)),
                               Rat(DigitsValue(frac), Pow10(Len(frac)))))
        Fraction(rest) ==
            IF rest # <<>> /\ Head(rest) = "." THEN DigitPrefix(Tail(rest))
            ELSE <<>>
        After(body, int) ==
            Decimal(int, Fraction(SubSeq(body, Len(int) + 1, Len(body))))
        Unsigned(body) ==
            After(body, DigitPrefix(body))
        Negated(num) ==
            IF num.isNull THEN NaN ELSE Finite(RatSub(RatInt(0), num.val))
    IN IF s # <<>> /\ Head(s) = "-" THEN Negated(Unsigned(Tail(s)))
       ELSE Unsigned(s)

\* parseValue(val): 'k' (but not 'kg') multiplies by 1000, then 'm' (but
\* not 'mm', 'mg') by 1000000; all but digits, dots and dashes is dropped
\* before parseFloat; null when no number can be read
ParseValue(val) ==
    LET Multiplier(str) ==
            IF /\ Includes(str, <<"m">>)
               /\ ~Includes(str, <<"m", "m">>)
               /\ ~Includes(str, <<"m", "g">>)
            THEN 1000000
            ELSE IF Includes(str, <<"k">>) /\ ~Includes(str, <<"k", "g">>)
            THEN 1000
            ELSE 1
        Scaled(num, multiplier) ==
            IF num.isNull THEN NaN
            ELSE Finite(RatMul(num.val, RatInt(multiplier)))
        Clean(str) ==
            Scaled(ParseFloat(FilterChars(str, CharsOf(DigitChars) \cup {".", "-"})),
                   Multiplier(str))
    IN Clean(Trim(ToLowerCase(val.text)))

\* ---------------------------------------------------------------------
\* performMatching: scoring one catalog item against one requirement.
\* params and specs are ordered mappings: sequences of [key, val].
\* ---------------------------------------------------------------------
Absent ==
    [present |-> FALSE, val |-> StrVal(<<>>)]

Present(v) ==
    [present |-> TRUE, val |-> v]

\* JS truthiness of a number or string
Truthy(v) ==
    LET NonZero(num) == ~num.isNull /\ num.val.n # 0
    IN IF v.isNum THEN NonZero(ParseFloat(v.text)) ELSE v.text # <<>>

\* specs[key]
Lookup(specs, key) ==
    IF \E i \in 1..Len(specs) : specs[i].key = key
    THEN Present(specs[CHOOSE i \in 1..Len(specs) : specs[i].key = key].val)
    ELSE Absent

\* skuVal for a requirement key: specs[key] when truthy, else the value of
\* the first specification key whose cleaned form contains or is contained
\* in the cleaned key
SkuValueFor(specs, key) ==
    LET KeyMatch(cleanK, searchKey) ==
            Includes(cleanK, searchKey) \/ Includes(searchKey, cleanK)
        First(hits) ==
            IF hits = {} THEN Absent
            ELSE Present(specs[CHOOSE i \in hits : \A j \in hits : i <= j].val)
        Fuzzy(searchKey) ==
            First({i \in 1..Len(specs) :
                     KeyMatch(CleanStr(specs[i].key), searchKey)})
        Choice(exact) ==
            IF exact.present /\ Truthy(exact.val) THEN exact
            ELSE Fuzzy(CleanStr(key))
    IN Choice(Lookup(specs, key))

\* both values are numbers: diff = |sku - rfp|, avg = (sku + rfp) / 2, the
\* score is 1 within 10 % of avg, else Math.max(0, 1 - diff / avg); diff / 0
\* is Infinity for diff > 0
NumericScore(rfpNum, skuNum) ==
    LET Of(diff, avg) ==
            IF RatLe(diff, RatMul(avg, Rat(1, 10))) THEN RatInt(1)
            ELSE IF avg.n = 0 THEN RatInt(0)
            ELSE RatMax(RatInt(0), RatSub(RatInt(1), RatDiv(diff, avg)))
    IN Of(RatAbs(RatSub(skuNum, rfpNum)),
          RatDiv(RatAdd(skuNum, rfpNum), RatInt(2)))

\* the score of one requirement parameter against the value found for it:
\* numeric when both parse, else equal or one contained in the other,
\* case-insensitively
ParamScore(val, skuVal) ==
    LET TextMatch(rStr, sStr) ==
            IF rStr = sStr \/ Includes(sStr, rStr) \/ Includes(rStr, sStr)
            THEN RatInt(1) ELSE RatInt(0)
        Of(rfpNum, skuNum) ==
            IF ~rfpNum.isNull /\ ~skuNum.isNull
            THEN NumericScore(rfpNum.val, skuNum.val)
            ELSE TextMatch(ToLowerCase(val.text), ToLowerCase(skuVal.text))
    IN Of(ParseValue(val), ParseValue(skuVal))

\* the loop over Object.entries(params): [totalScore, paramCount, details];
\* an empty value is skipped, a value not found on the SKU scores 0
RECURSIVE ScoreParams(_, _)
ScoreParams(params, specs) ==
    LET Found(p, skuVal) ==
            IF skuVal.present THEN ParamScore(p.val, skuVal.val) ELSE RatInt(0)
        Add(acc, p, score) ==
            [totalScore |-> RatAdd(acc.totalScore, score),
             paramCount |-> acc.paramCount + 1,
             details |-> Append(acc.details, [key |-> p.key, score |-> score])]
        Step(acc, p) ==
            IF ~p.val.isNum /\ p.val.text = <<>> THEN acc
            ELSE Add(acc, p, Found(p, SkuValueFor(specs, p.key)))
    IN IF params = <<>>
       THEN [totalScore |-> RatInt(0), paramCount |-> 0, details |-> <<>>]
       ELSE Step(ScoreParams(SubSeq(params, 1, Len(params) - 1), specs),
                 params[Len(params)])

\* ---------------------------------------------------------------------
\* performMatching: the text-search fallback
\* ---------------------------------------------------------------------
\* rfpDesc.split(/[\s\-_,]+/): the non-empty pieces of s between
\* separators, in order
RECURSIVE Tokenize(_, _)
Tokenize(s, cur) ==
    IF s = <<>> THEN (IF cur = <<>> THEN <<>> ELSE <<cur>>)
    ELSE IF Head(s) \in {" ", "-", "_", ","}
    THEN (IF cur = <<>> THEN <<>> ELSE <<cur>>) \o Tokenize(Tail(s), <<>>)
    ELSE Tokenize(Tail(s), Append(cur, Head(s)))

\* JSON.stringify of one specs entry and of the specs object
RECURSIVE JsonEntries(_)
JsonEntries(specs) ==
    IF specs = <<>> THEN <<>>
    ELSE LET e == Head(specs)
             v == IF e.val.isNum THEN e.val.text
                  ELSE <<"\"">> \o e.val.text \o <<"\"">>
         IN <<"\"">> \o e.key \o <<"\"", ":">> \o v
            \o (IF Len(specs) > 1 THEN <<",">> ELSE <<>>)
            \o JsonEntries(Tail(specs))

\* (sku.modelName + " " + sku.manufacturer + " " +
\*  JSON.stringify(sku.specs)).toLowerCase()
SkuFullText(sku) ==
    ToLowerCase(sku.modelName \o <<" ">> \o sku.manufacturer \o <<" ">>
                \o <<"{">> \o JsonEntries(sku.specs) \o <<"}">>)

\* the share, in percent, of the description's tokens longer than two
\* characters that are found in the SKU text; 0 without such tokens
TextScore(prod, sku) ==
    LET Of(rfpTokens, skuFullText) ==
            IF Len(rfpTokens) > 0
            THEN RatMul(Rat(Cardinality({i \in 1..Len(rfpTokens) :
                                           Includes(skuFullText, rfpTokens[i])}),
                            Len(rfpTokens)),
                        RatInt(100))
            ELSE RatInt(0)
    IN Of(SelectSeq(Tokenize(ToLowerCase(prod.description), <<>>),
                    LAMBDA t : Len(t) > 2),
          SkuFullText(sku))

\* "text_inference"
TextInferenceKey ==
    <<"t", "e", "x", "t", "_", "i", "n", "f", "e", "r", "e", "n", "c", "e">>

\* finalScore < 20 && textScore > finalScore
UseTextScore(finalScore, textScore) ==
    RatLt(finalScore, RatInt(20)) /\ RatLt(finalScore, textScore)

\* one element of scoredSkus: finalScore = paramCount > 0 ? (totalScore /
\* paramCount) * 100 : 0, replaced by the text score when that applies
ScoreSku(prod, sku) ==
    LET Final(sp) ==
            IF sp.paramCount > 0
            THEN RatMul(RatDiv(sp.totalScore, RatInt(sp.paramCount)), RatInt(100))
            ELSE RatInt(0)
        Pick(sp, finalScore, textScore) ==
            IF UseTextScore(finalScore, textScore)
            THEN [sku |-> sku, matchScore |-> textScore,
                  details |-> Append(sp.details,
                                     [key |-> TextInferenceKey,
                                      score |-> RatDiv(textScore, RatInt(100))])]
            ELSE [sku |-> sku, matchScore |-> finalScore, details |-> sp.details]
        From(sp, textScore) ==
            Pick(sp, Final(sp), textScore)
    IN From(ScoreParams(prod.params, sku.specs), TextScore(prod, sku))

\* ---------------------------------------------------------------------
\* performMatching: ranking, selection and the demo override
\* ---------------------------------------------------------------------
\* a mutant of InsertPosition: an equal score goes in front
InsertPositionTiesFirst(sorted, x) ==
    Cardinality({i \in 1..Len(sorted) :
                   RatLt(x.matchScore, sorted[i].matchScore)})

\* scoredSkus.sort((a, b) => b.matchScore - a.matchScore) is a stable sort:
\* x stays behind every earlier element whose score is not smaller
InsertPosition(sorted, x) ==
    Cardinality({i \in 1..Len(sorted) :
                   RatLe(x.matchScore, sorted[i].matchScore)})

RECURSIVE SortByScore(_)
SortByScore(scored) ==
    LET InsertAt(sorted, x, k) ==
            SubSeq(sorted, 1, k) \o <<x>> \o SubSeq(sorted, k + 1, Len(sorted))
        Insert(sorted, x) ==
            InsertAt(sorted, x, InsertPosition(sorted, x))
    IN IF scored = <<>> THEN <<>>
       ELSE Insert(SortByScore(SubSeq(scored, 1, Len(scored) - 1)),
                   scored[Len(scored)])

\* scoredSkus.slice(0, 3)
TopCandidates(sorted) ==
    SubSeq(sorted, 1, IF Len(sorted) < 3 THEN Len(sorted) ELSE 3)

\* "500kVA" and "TRX-500"
Text500kVA ==
    <<"5", "0", "0", "k", "V", "A">>

TextTRX500 ==
    <<"T", "R", "X", "-", "5", "0", "0">>

\* the SKU the demo override makes up when the catalog has no TRX-500
DemoSku ==
    [id |-> "demo-perfect-match",
     modelName |-> TextTRX500 \o <<"-", "D", "i", "s", "t">>,
     manufacturer |-> <<"V", "o", "l", "t", "M", "a", "s", "t", "e", "r">>,
     specs |-> << [key |-> <<"V", "o", "l", "t", "a", "g", "e">>,
                   val |-> NumVal(<<"1", "1", "0", "0", "0">>)],
                  [key |-> <<"C", "o", "o", "l", "i", "n", "g">>,
                   val |-> StrVal(<<"O", "N", "A", "N">>)],
                  [key |-> <<"C", "a", "p", "a", "c", "i", "t", "y">>,
                   val |-> StrVal(Text500kVA)],
                  [key |-> <<"T", "y", "p", "e">>,
                   val |-> StrVal(<<"O", "i", "l", " ", "I", "m", "m", "e", "r", "s", "e", "d">>)] >>,
     unitPrice |-> 12500, stockQty |-> 12]

\* prod.itemNo === 'TRF-DIST-001' || prod.description.includes('500kVA')
DemoOverrideApplies(prod) ==
    prod.itemNo = "TRF-DIST-001" \/ Includes(prod.description, Text500kVA)

\* availableSkus.find(s => s.modelName.includes('TRX-500') || ...), else
\* the made-up SKU
DemoSkuFor(catalog) ==
    LET First(hits) ==
            IF hits = {} THEN DemoSku
            ELSE catalog[CHOOSE i \in hits : \A j \in hits : i <= j]
    IN First({i \in 1..Len(catalog) :
                Includes(catalog[i].modelName, TextTRX500)})

\* topMatch.sku.stockQty < prod.qty
IsMTO(stockQty, qty) ==
    stockQty < qty

\* the callback of products.map in performMatching: one SKUMatch. The demo
\* override gives score 98.5 and isMTO false; otherwise the ranking
\* decides, and nothing is selected for an empty ranking
MatchRequirement(prod, catalog) ==
    LET Demo(demoSku) ==
            [itemNo |-> prod.itemNo,
             matches |-> << [sku |-> demoSku, matchScore |-> Rat(197, 2),
                             details |->
               << [key |-> <<"V", "o", "l", "t", "a", "g", "e">>,
                   score |-> RatInt(1)],
                  [key |-> <<"C", "o", "o", "l", "i", "n", "g">>,
                   score |-> RatInt(1)],
                  [key |-> <<"S", "e", "m", "a", "n", "t", "i", "c", " ", "C", "h", "e", "c", "k">>,
                   score |-> RatInt(1)],
                  [key |-> <<"V", "e", "c", "t", "o", "r", " ", "A", "l", "i", "g", "n">>,
                   score |-> RatInt(1)] >>] >>,
             selectedSkuId |-> demoSku.id,
             isMTO |-> FALSE,
             requestedQty |-> prod.qty]
        Ranked(scoredSkus) ==
            IF scoredSkus = <<>>
            THEN [itemNo |-> prod.itemNo, matches |-> <<>>,
                  selectedSkuId |-> "", isMTO |-> TRUE,
                  requestedQty |-> prod.qty]
            ELSE [itemNo |-> prod.itemNo,
                  matches |-> TopCandidates(scoredSkus),
                  selectedSkuId |-> scoredSkus[1].sku.id,
                  isMTO |-> IsMTO(scoredSkus[1].sku.stockQty, prod.qty),
                  requestedQty |-> prod.qty]
    IN IF DemoOverrideApplies(prod) THEN Demo(DemoSkuFor(catalog))
       ELSE Ranked(SortByScore([i \in 1..Len(catalog) |->
                                  ScoreSku(prod, catalog[i])]))

\* performMatching(products, availableSkus) on requirements and catalog
\* items given in full
MatchAll(products, catalog) ==
    [i \in 1..Len(products) |-> MatchRequirement(products[i], catalog)]

\* ---------------------------------------------------------------------
\* runPricing on requirements and catalog items given in full
\* ---------------------------------------------------------------------
\* testCost += 500 * qty (per unit) and testCost += 1000 (per lot)
PerUnitTestFee == 500
PerLotTestFee == 1000

\* a mutant of SelectedOf: the last candidate kept is taken
SelectedOfLast(match) ==
    [present |-> match.matches # <<>>, at |-> Len(match.matches)]

\* match.matches.find(m => m.sku.id === match.selectedSkuId)
SelectedOf(match) ==
    LET First(hits) ==
            IF hits = {} THEN [present |-> FALSE, at |-> 0]
            ELSE [present |-> TRUE,
                  at |-> CHOOSE i \in hits : \A j \in hits : i <= j]
    IN First({i \in 1..Len(match.matches) :
                match.matches[i].sku.id = match.selectedSkuId})

\* tests.forEach(t => { if (t.perUnit) ...; if (t.perLot) ... })
RECURSIVE TestCost(_, _)
TestCost(tests, qty) ==
    IF tests = <<>> THEN 0
    ELSE (IF Head(tests).perUnit THEN PerUnitTestFee * qty ELSE 0)
         + (IF Head(tests).perLot THEN PerLotTestFee ELSE 0)
         + TestCost(Tail(tests), qty)

\* a mutant of LineQty: every line is priced for one unit
LineQtyOne(requestedQty) ==
    1

\* match.requestedQty || 1
LineQty(requestedQty) ==
    IF requestedQty = 0 THEN 1 ELSE requestedQty

\* the line for a match without selected candidate
ManualLine(match) ==
    [itemNo |-> match.itemNo, skuModel |-> "Manual Source Req",
     unitPrice |-> 0, qty |-> match.requestedQty, productTotal |-> 0,
     testCosts |-> 0, lineTotal |-> 0, notes |-> "Out of Scope"]

\* the callback of matches.map in runPricing: one PricingLine
PricingLine(match, tests) ==
    LET Line(selected, qty, testCost) ==
            [itemNo |-> match.itemNo, skuModel |-> selected.sku.modelName,
             unitPrice |-> selected.sku.unitPrice, qty |-> qty,
             productTotal |-> selected.sku.unitPrice * qty,
             testCosts |-> testCost,
             lineTotal |-> selected.sku.unitPrice * qty + testCost,
             notes |-> IF match.isMTO THEN "MTO: 4-6 Weeks"
                       ELSE "Ex-Stock: 1-2 Weeks"]
        For(sel) ==
            IF ~sel.present THEN ManualLine(match)
            ELSE Line(match.matches[sel.at], LineQty(match.requestedQty),
                      TestCost(tests, LineQty(match.requestedQty)))
    IN For(SelectedOf(match))

RECURSIVE SumLineTotals(_)
SumLineTotals(lines) ==
    IF lines = <<>> THEN 0
    ELSE Head(lines).lineTotal + SumLineTotals(Tail(lines))

\* a mutant of Surcharges: taxes are taken on the subtotal alone
SurchargesTaxOnSubtotal(subtotal) ==
    [logistics |-> Rat(5 * subtotal, 100),
     contingency |-> Rat(3 * subtotal, 100),
     taxes |-> Rat(10 * subtotal, 100),
     grandTotal |-> Rat(118 * subtotal, 100)]

\* logistics = subtotal * 0.05, contingency = subtotal * 0.03, taxes =
\* (subtotal + logistics + contingency) * 0.10, and grandTotal their sum
Surcharges(subtotal) ==
    LET Breakdown(s, logistics, contingency, taxes) ==
            [logistics |-> logistics, contingency |-> contingency,
             taxes |-> taxes,
             grandTotal |-> RatAdd(RatAdd(RatAdd(s, logistics), contingency),
                                   taxes)]
        WithTaxes(s, logistics, contingency) ==
            Breakdown(s, logistics, contingency,
                      RatMul(RatAdd(RatAdd(s, logistics), contingency),
                             Rat(10, 100)))
    IN WithTaxes(RatInt(subtotal), RatMul(RatInt(subtotal), Rat(5, 100)),
                 RatMul(RatInt(subtotal), Rat(3, 100)))

\* runPricing(products, availableSkus, tests): its own performMatching,
\* the pricing table, the subtotal and the surcharges
PricingResult(products, catalog, tests) ==
    LET Table(matches) ==
            [i \in 1..Len(matches) |-> PricingLine(matches[i], tests)]
        Result(pricingTable, subtotal, sur) ==
            [present |-> TRUE, pricingTable |-> pricingTable,
             subtotal |-> subtotal, logistics |-> sur.logistics,
             contingency |-> sur.contingency, taxes |-> sur.taxes,
             grandTotal |-> sur.grandTotal]
        Totalled(pricingTable, subtotal) ==
            Result(pricingTable, subtotal, Surcharges(subtotal))
        Summed(pricingTable) ==
            Totalled(pricingTable, SumLineTotals(pricingTable))
    IN Summed(Table(MatchAll(products, catalog)))

\* ---------------------------------------------------------------------
\* runStrategyAnalysis
\* ---------------------------------------------------------------------
\* Math.round for a fraction: the nearest integer, halves upwards
RatRound(a) ==
    (2 * a.n + a.d) \div (2 * a.d)

\* the reduce over techMatches of m.matches[0]?.matchScore || 0
RECURSIVE SumTopScores(_)
SumTopScores(techMatches) ==
    IF techMatches = <<>> THEN RatInt(0)
    ELSE RatAdd(IF Head(techMatches).matches = <<>> THEN RatInt(0)
                ELSE Head(techMatches).matches[1].matchScore,
                SumTopScores(Tail(techMatches)))

\* a mutant of AvgTechScore: only requirements with a candidate are counted
AvgTechScoreMatchedOnly(techMatches) ==
    LET Mean(total, count) ==
            IF count > 0 THEN RatDiv(total, RatInt(count)) ELSE RatInt(0)
    IN Mean(SumTopScores(techMatches),
            Len(SelectSeq(techMatches, LAMBDA m : m.matches # <<>>)))

\* the mean of the top scores over all requirements, 0 for none
AvgTechScore(techMatches) ==
    LET Mean(total, count) ==
            IF count > 0 THEN RatDiv(total, RatInt(count)) ELSE RatInt(0)
    IN Mean(SumTopScores(techMatches), Len(techMatches))

\* a mutant of PricePosition: the ends of the band belong to the outer
\* positions
PricePositionClosedEnds(ourPrice, marketLow, marketHigh) ==
    IF RatLe(ourPrice, marketLow) THEN [position |-> "Low-Cost", priceScore |-> 100]
    ELSE IF RatLe(marketHigh, ourPrice) THEN [position |-> "Premium", priceScore |-> 40]
    ELSE [position |-> "Competitive", priceScore |-> 75]

\* position and priceScore from the price band around marketAvg
PricePosition(ourPrice, marketLow, marketHigh) ==
    IF RatLt(ourPrice, marketLow) THEN [position |-> "Low-Cost", priceScore |-> 100]
    ELSE IF RatLt(marketHigh, ourPrice) THEN [position |-> "Premium", priceScore |-> 40]
    ELSE [position |-> "Competitive", priceScore |-> 75]

\* a mutant of ClampWinProb: the rounded value is returned as it is
ClampWinProbRoundOnly(x) ==
    RatRound(x)

\* Math.min(99, Math.max(1, Math.round(winProb)))
ClampWinProb(x) ==
    LET Clamp(r) == IF r < 1 THEN 1 ELSE IF r > 99 THEN 99 ELSE r
    IN Clamp(RatRound(x))

\* runStrategyAnalysis(techMatches, pricing, risk, compliance) with the
\* value Math.random() led to for variance; summary keeps the parts of the
\* text that vary
StrategyAnalysis(techMatches, pricingIn, risk, compliance, variance) ==
    LET CompScore == IF compliance.status = "Pass" THEN 100 ELSE 50
        WinProb(avgTechScore, priceScore) ==
            RatAdd(RatAdd(RatMul(avgTechScore, Rat(35, 100)),
                          RatMul(RatInt(priceScore), Rat(45, 100))),
                   RatAdd(RatMul(RatInt(100 - risk.score), Rat(10, 100)),
                          RatMul(RatInt(CompScore), Rat(10, 100))))
        AlignmentText(avgTechScore) ==
            IF RatLt(RatInt(80), avgTechScore) THEN "strong"
            ELSE IF RatLt(RatInt(50), avgTechScore) THEN "moderate"
            ELSE "weak"
        Result(band, position, avgTechScore, winProb) ==
            [present |-> TRUE,
             winProbability |-> winProb,
             competitorAnalysis |-> [ourPrice |-> band.ourPrice,
                                     marketAvg |-> band.marketAvg,
                                     marketHigh |-> band.marketHigh,
                                     marketLow |-> band.marketLow,
                                     position |-> position],
             avgTechScore |-> avgTechScore,
             summary |-> [position |-> position, winProb |-> winProb,
                          alignmentText |-> AlignmentText(avgTechScore),
                          techPercent |-> RatRound(avgTechScore),
                          riskLevel |-> ToLowerCase(risk.level)]]
        Scored(band, pp, avgTechScore) ==
            Result(band, pp.position, avgTechScore,
                   ClampWinProb(WinProb(avgTechScore, pp.priceScore)))
        Band(ourPrice, marketAvg) ==
            [ourPrice |-> ourPrice, marketAvg |-> marketAvg,
             marketHigh |-> RatMul(marketAvg, Rat(115, 100)),
             marketLow |-> RatMul(marketAvg, Rat(85, 100))]
        Positioned(band, avgTechScore) ==
            Scored(band,
                   PricePosition(band.ourPrice, band.marketLow, band.marketHigh),
                   avgTechScore)
        For(ourPrice) ==
            Positioned(Band(ourPrice,
                            RatMul(ourPrice, RatAdd(RatInt(1), variance))),
                       AvgTechScore(techMatches))
    IN For(IF pricingIn.present THEN pricingIn.grandTotal ELSE RatInt(0))

\* ---------------------------------------------------------------------
\* runRiskAssessment
\* ---------------------------------------------------------------------
\* a mutant of RiskAssessment: the supply-chain penalty is added once per
\* Made-To-Order item
RiskAssessmentPerItem(matches, dueDate) ==
    LET mtoCount == Cardinality({i \in 1..Len(matches) : matches[i].isMTO})
        timeline == /\ dueDate.given
                    /\ dueDate.valid
                    /\ dueDate.msLeft < 86400000 * 5
        score == 20 + 30 * mtoCount + (IF timeline THEN 15 ELSE 0)
    IN [score |-> score,
        level |-> IF score > 70 THEN <<"H", "i", "g", "h">>
                  ELSE IF score > 40 THEN <<"M", "e", "d", "i", "u", "m">>
                  ELSE <<"L", "o", "w">>,
        factors |-> (IF mtoCount > 0
                     THEN <<[factor |-> "Supply Chain", count |-> mtoCount]>>
                     ELSE <<>>)
                    \o (IF timeline
                        THEN <<[factor |-> "Timeline", count |-> 0]>>
                        ELSE <<>>),
        mitigation |-> IF score > 70 THEN "extension and liability cap"
                       ELSE "standard warranty"]

\* a mutant of RiskAssessment: the timeline penalty is added for every due
\* date that parses, however far away
RiskAssessmentAnyDueDate(matches, dueDate) ==
    LET mtoCount == Cardinality({i \in 1..Len(matches) : matches[i].isMTO})
        supply == Len(matches) > 0 /\ mtoCount > 0
        timeline == dueDate.given /\ dueDate.valid
        score == 20 + (IF supply THEN 30 ELSE 0) + (IF timeline THEN 15 ELSE 0)
    IN [score |-> score,
        level |-> IF score > 70 THEN <<"H", "i", "g", "h">>
                  ELSE IF score > 40 THEN <<"M", "e", "d", "i", "u", "m">>
                  ELSE <<"L", "o", "w">>,
        factors |-> (IF supply
                     THEN <<[factor |-> "Supply Chain", count |-> mtoCount]>>
                     ELSE <<>>)
                    \o (IF timeline
                        THEN <<[factor |-> "Timeline", count |-> 0]>>
                        ELSE <<>>),
        mitigation |-> IF score > 70 THEN "extension and liability cap"
                       ELSE "standard warranty"]

\* runRiskAssessment(rfp, matches) for rfp.dueDate = dueDate: given is the
\* truthiness of the string, valid whether new Date(dueDate) is a date, and
\* msLeft is new Date(dueDate).getTime() - Date.now(); factors and
\* mitigation keep the parts of the texts that vary
RiskAssessment(matches, dueDate) ==
    LET mtoCount == Cardinality({i \in 1..Len(matches) : matches[i].isMTO})
        supply == Len(matches) > 0 /\ mtoCount > 0
        timeline == /\ dueDate.given
                    /\ dueDate.valid
                    /\ dueDate.msLeft < 86400000 * 5
        score == 20 + (IF supply THEN 30 ELSE 0) + (IF timeline THEN 15 ELSE 0)
    IN [score |-> score,
        level |-> IF score > 70 THEN <<"H", "i", "g", "h">>
                  ELSE IF score > 40 THEN <<"M", "e", "d", "i", "u", "m">>
                  ELSE <<"L", "o", "w">>,
        factors |-> (IF supply
                     THEN <<[factor |-> "Supply Chain", count |-> mtoCount]>>
                     ELSE <<>>)
                    \o (IF timeline
                        THEN <<[factor |-> "Timeline", count |-> 0]>>
                        ELSE <<>>),
        mitigation |-> IF score > 70 THEN "extension and liability cap"
                       ELSE "standard warranty"]

\* ---------------------------------------------------------------------
\* Requirements, catalog items and tests the calculations are applied to
\* ---------------------------------------------------------------------
MaxCatalog == 4
MaxReqs == 2

\* the requirements matched: one per scoring rule
ReqPool ==
    {
      \* {voltage: 11000, cooling: "ONAN"}, quantity 10
      [itemNo |-> "ITEM-1",
       description |-> <<"U", "n", "i", "t">>,
       qty |-> 10,
       params |->
       << [key |-> <<"v", "o", "l", "t", "a", "g", "e">>,
            val |-> NumVal(<<"1", "1", "0", "0", "0">>)],
          [key |-> <<"c", "o", "o", "l", "i", "n", "g">>,
            val |-> StrVal(<<"O", "N", "A", "N">>)] >>],
      \* a range text and a plain number, quantity 0
      [itemNo |-> "ITEM-2",
       description |-> <<"U", "n", "i", "t">>,
       qty |-> 0,
       params |->
       << [key |-> <<"l", "o", "a", "d">>,
            val |-> StrVal(<<"1", "0", "0", "-", "2", "0", "0">>)],
          [key |-> <<"k", "v", "a">>,
            val |-> NumVal(<<"1", "0", "0", "0">>)] >>],
      \* a temperature below zero
      [itemNo |-> "ITEM-3",
       description |-> <<"U", "n", "i", "t">>,
       qty |-> 1,
       params |->
       << [key |-> <<"t", "e", "m", "p">>,
            val |-> StrVal(<<"-", "1", "0">>)] >>],
      \* no parameters, only a description
      [itemNo |-> "ITEM-4",
       description |-> <<"C", "a", "b", "l", "e", " ", "X", "L", "P", "E">>,
       qty |-> 1,
       params |->
       <<>>],
      \* the item number of the demo override, more units than the demo stock
      [itemNo |-> "TRF-DIST-001",
       description |-> <<"5", "0", "0", "k", "V", "A", " ", "U", "n", "i", "t">>,
       qty |-> 13,
       params |->
       <<>>]
    }

\* the catalog items; the third has the voltage and cooling of the first
SkuPool ==
    {
      \* specs {voltage: 11000, cooling: "ONAN"}, stock 20, unit price 1000
      [id |-> "sku-101",
       modelName |-> <<"T", "X", "-", "1", "1">>,
       manufacturer |-> <<"V", "o", "l", "t">>,
       specs |->
       << [key |-> <<"v", "o", "l", "t", "a", "g", "e">>,
            val |-> NumVal(<<"1", "1", "0", "0", "0">>)],
          [key |-> <<"c", "o", "o", "l", "i", "n", "g">>,
            val |-> StrVal(<<"O", "N", "A", "N">>)] >>,
       unitPrice |-> 1000, stockQty |-> 20],
      [id |-> "sku-102",
       modelName |-> <<"T", "X", "-", "1", "2">>,
       manufacturer |-> <<"V", "o", "l", "t">>,
       specs |->
       << [key |-> <<"v", "o", "l", "t", "a", "g", "e">>,
            val |-> NumVal(<<"1", "1", "0", "0", "0">>)],
          [key |-> <<"c", "o", "o", "l", "i", "n", "g">>,
            val |-> StrVal(<<"O", "N", "A", "F">>)],
          [key |-> <<"l", "o", "a", "d">>,
            val |-> NumVal(<<"2", "5", "0">>)],
          [key |-> <<"k", "v", "a">>,
            val |-> NumVal(<<"1", "1", "0", "0">>)],
          [key |-> <<"t", "e", "m", "p">>,
            val |-> NumVal(<<"-", "1", "0">>)] >>,
       unitPrice |-> 1500, stockQty |-> 5],
      \* scores as sku-101 does on voltage and cooling; out of stock
      [id |-> "sku-103",
       modelName |-> <<"T", "X", "-", "1", "3">>,
       manufacturer |-> <<"A", "m", "p">>,
       specs |->
       << [key |-> <<"v", "o", "l", "t", "a", "g", "e">>,
            val |-> NumVal(<<"1", "1", "0", "0", "0">>)],
          [key |-> <<"c", "o", "o", "l", "i", "n", "g">>,
            val |-> StrVal(<<"O", "N", "A", "N">>)],
          [key |-> <<"l", "o", "a", "d">>,
            val |-> NumVal(<<"1", "5", "0">>)],
          [key |-> <<"k", "v", "a">>,
            val |-> NumVal(<<"1", "0", "0", "0">>)],
          [key |-> <<"t", "e", "m", "p">>,
            val |-> NumVal(<<"-", "2", "0">>)] >>,
       unitPrice |-> 750, stockQty |-> 0],
      [id |-> "sku-104",
       modelName |-> <<"X", "L", "P", "E", "-", "3">>,
       manufacturer |-> <<"C", "a", "b", "l", "e">>,
       specs |->
       <<>>,
       unitPrice |-> 250, stockQty |-> 100]
    }

\* sequences without repetition, of at most n elements of S
DistinctSeqsUpTo(S, n) ==
    {q \in SeqsUpTo(S, n) : \A i, j \in 1..Len(q) : q[i] = q[j] => i = j}

\* the catalogs matched against: at most MaxCatalog items of the pool, in
\* the order of their ids or in the opposite order
Catalogs ==
    LET ids == <<"sku-101", "sku-102", "sku-103", "sku-104">>
        Rank(sku) == CHOOSE n \in 1..Len(ids) : ids[n] = sku.id
    IN {q \in DistinctSeqsUpTo(SkuPool, MaxCatalog) :
          \/ \A i, j \in 1..Len(q) : i < j => Rank(q[i]) < Rank(q[j])
          \/ \A i, j \in 1..Len(q) : i < j => Rank(q[i]) > Rank(q[j])}

\* the lists of tests priced: none, one of each kind, one of both kinds
TestLists ==
    { <<>>,
      << [id |-> "T1", perUnit |-> TRUE, perLot |-> FALSE],
         [id |-> "T2", perUnit |-> FALSE, perLot |-> TRUE] >>,
      << [id |-> "T3", perUnit |-> TRUE, perLot |-> TRUE] >> }

\* values of Math.random() * 0.2 - 0.05
Variances ==
    {Rat(-1, 20), RatInt(0), Rat(7, 50)}

\* results of the risk and compliance agents handed to the strategy agent
RiskInputs ==
    { [score |-> 0, level |-> <<"L", "o", "w">>],
      [score |-> 100, level |-> <<"H", "i", "g", "h">>] }

\* rfp.dueDate at the time of the call: '', a text that is no date, a date
\* one millisecond less than five days away, and a date five days away
DueDates ==
    { [given |-> FALSE, valid |-> FALSE, msLeft |-> 0],
      [given |-> TRUE, valid |-> FALSE, msLeft |-> 0],
      [given |-> TRUE, valid |-> TRUE, msLeft |-> 86400000 * 5 - 1],
      [given |-> TRUE, valid |-> TRUE, msLeft |-> 86400000 * 5] }

ComplianceInputs ==
    { [status |-> "Pass"], [status |-> "Conditional"] }

\* ---------------------------------------------------------------------
\* The calculations applied one after another to given inputs
\* ---------------------------------------------------------------------
CalcMatching ==
    /\ pc = "calcInput"
    /\ skuMatches' = MatchAll(rfp.products, skus)
    /\ pc' = "calcMatched"
    /\ UNCHANGED <<wrapperVars, cap, upd, runs, rfp, skus, isRunning,
                   activeAgents, finalPricing, tech, pricing, invoked, logs,
                   coreVars>>

\* runPricing on the requirements and the catalog, for an RFP with the
\* given tests
CalcPricing(tests) ==
    /\ pc = "calcMatched"
    /\ rfp' = [rfp EXCEPT !.tests = [isArray |-> TRUE, items |-> tests]]
    /\ finalPricing' = PricingResult(rfp.products, skus, tests)
    /\ pc' = "calcPriced"
    /\ UNCHANGED <<wrapperVars, cap, upd, runs, skus, isRunning,
                   activeAgents, skuMatches, tech, pricing, invoked, logs,
                   coreVars>>

CalcStrategy(risk, compliance, variance) ==
    /\ pc = "calcPriced"
    /\ strategy' = StrategyAnalysis(skuMatches, finalPricing, risk, compliance,
                                    variance)
    /\ riskAnalysis' = risk
    /\ complianceCheck' = compliance
    /\ pc' = "calcDone"
    /\ UNCHANGED <<wrapperVars, cap, upd, runs, rfp, skus, isRunning,
                   activeAgents, skuMatches, finalPricing, tech, pricing,
                   invoked, logs>>

\* runRiskAssessment on the matches, for an RFP with the given due date
CalcRisk(dueDate) ==
    /\ pc = "calcMatched"
    /\ rfp' = [rfp EXCEPT !.dueDate = dueDate]
    /\ riskAnalysis' = RiskAssessment(skuMatches, dueDate)
    /\ pc' = "calcRisked"
    /\ UNCHANGED <<wrapperVars, cap, upd, runs, skus, isRunning,
                   activeAgents, skuMatches, finalPricing, tech, pricing,
                   invoked, logs, strategy, complianceCheck>>

InitCalc ==
    /\ InitWrapperVars
    /\ pc = "calcInput"
    /\ runs = 0
    /\ \E products \in DistinctSeqsUpTo(ReqPool, MaxReqs) :
          rfp = [title |-> "plain", status |-> "Discovered",
                 dueDate |-> [given |-> FALSE, valid |-> FALSE, msLeft |-> 0],
                 products |-> products,
                 tests |-> EmptyTests,
                 finalResponse |-> NoPricing]
    /\ cap = rfp
    /\ upd = rfp
    /\ skus \in Catalogs
    /\ isRunning = FALSE
    /\ activeAgents = {}
    /\ logs = <<>>
    /\ skuMatches = <<>>
    /\ finalPricing = NoPricing
    /\ tech = IdleTask
    /\ pricing = IdleTask
    /\ invoked = {}
    /\ strategy = NoStrategy
    /\ riskAnalysis = Null
    /\ complianceCheck = Null

NextCalc ==
    \/ CalcMatching
    \/ \E tests \in TestLists : CalcPricing(tests)
    \/ \E dueDate \in DueDates : CalcRisk(dueDate)
    \/ \E risk \in RiskInputs, compliance \in ComplianceInputs,
          variance \in Variances : CalcStrategy(risk, compliance, variance)

SpecCalc ==
    InitCalc /\ [][NextCalc]_vars

\* fairness: an armed timer fires unless the race is settled first, a
\* started sleep ends, and the harness makes its call
SpecWrapperFair ==
    SpecWrapper /\ WF_vars(NextWrapper)

\* ---------------------------------------------------------------------
\* Properties of the resilience wrapper
\* ---------------------------------------------------------------------
RECURSIVE Pow2(_)
Pow2(k) ==
    IF k = 0 THEN 1 ELSE 2 * Pow2(k - 1)

FatalErrors ==
    { NewError(ApiMsgBadRequest), NewError(MsgNoResponse) }
    \cup { JsonSyntaxError(raw) : raw \in {RawBrace, RawQty429} }

\* C2: when the operation fails with a fatal error (a malformed response
\* included) the wrapper surfaces that error at once: no wait, no retry.
C2_FatalSurfacedImmediately ==
    (opOut.kind = "error" /\ opOut.err \in FatalErrors) =>
        (rPc = "done" /\ rResult = opOut)

\* C3: the operation is invoked at most maxRetries + 1 times; if the last
\* permitted invocation fails, that error is what the caller gets, and the
\* wrapper never settles with anything but the operation's own last
\* outcome; every call of the wrapper settles.
C3_BoundedRetries ==
    /\ [](calls <= argRetries + 1)
    /\ []((calls = argRetries + 1 /\ opOut.kind = "error") =>
             (rPc = "done" /\ rResult = opOut))
    /\ [](rPc = "done" => rResult = opOut)
    /\ <>(rPc = "done")

\* C3 witness: every one of the maxRetries + 1 invocations failed with a
\* transient error and the last error was surfaced
C3_Witness ==
    /\ rPc = "done"
    /\ argRetries >= 2
    /\ calls = argRetries + 1
    /\ Len(waits) = argRetries
    /\ rResult.kind = "error"
    /\ ShouldRetry(ErrString(rResult.err))

\* C4: the outcome of withTimeout is the wrapped promise's own outcome when
\* it settles first, and on expiry the fallback when one was given, else an
\* error "Operation timed out after <ms>ms".
C4_RaceOutcome ==
    /\ raceWinner = "promise" => (opOut = innerOut /\ opOut.kind # "none")
    /\ (raceWinner = "timer" /\ wtFallback # Null) =>
          (opOut.kind = "value" /\ opOut.val = wtFallback)
    /\ (raceWinner = "timer" /\ wtFallback = Null) =>
          /\ opOut.kind = "error"
          /\ opOut.err.message = MsgTimedOutPrefix \o Digits(wtMs) \o MsgMsSuffix

\* C4 witness: the deadline expired and the caller's fallback was returned
C4_Witness ==
    /\ raceWinner = "timer"
    /\ wtFallback = FallbackValue
    /\ rPc = "done"
    /\ rResult = Resolved(FallbackValue)

\* C5: when the deadline of a timeout-wrapped operation without fallback
\* expires and retries remain, the retry wrapper waits and retries.
C5_TimeoutIsRetried ==
    (raceWinner = "timer" /\ wtFallback = Null /\ retries > 0) =>
        rPc = "sleeping"

\* ---------------------------------------------------------------------
\* Properties of the pipeline
\* ---------------------------------------------------------------------
\* C6: extraction never succeeds with zero requirements and no run reaches
\* Phase 2 with zero requirements.
C6_NoEmptyExtraction ==
    /\ (rPc = "done" /\ rResult.kind = "value") => rResult.val.products # <<>>
    /\ pc = "phase2" => upd.products # <<>>

\* C7: once extractRFPData has failed, no Phase-2 task is started in that
\* run.
C7_NoPhase2AfterFailedExtraction ==
    (rPc = "done" /\ rResult.kind = "error") =>
        /\ invoked \cap Phase2Methods = {}
        /\ "generateResponse" \notin invoked
        /\ pc \notin {"phase2", "respond"}

\* C7 witness: a run whose extraction failed has ended
C7_Witness ==
    /\ rPc = "done"
    /\ rResult.kind = "error"
    /\ runs >= 1
    /\ pc = "idle"
    /\ ~isRunning

\* C8: a run is marked COMPLETED only after all four Phase-2 tasks and the
\* Strategy Synthesizer have run.
C8_CompletedOnlyAfterStrategy ==
    rfp.status = "Completed" =>
        (Phase2Methods \cup {"runStrategyAnalysis"}) \subseteq invoked

\* C9: after a Phase-2 task has failed, neither strategy synthesis nor
\* generateResponse is invoked in that run.
C9_NoPhase3AfterPhase2Failure ==
    (pricing.state = "failed" \/ tech.state = "failed") =>
        /\ "generateResponse" \notin invoked
        /\ "runStrategyAnalysis" \notin invoked
        /\ pc # "respond"

\* C9 witness: runPricing failed, the run was aborted, and
\* runTechnicalMatching completed afterwards
C9_Witness ==
    /\ pricing.state = "failed"
    /\ tech.state = "done"
    /\ pc = "idle"
    /\ ~isRunning

\* C10: after the pipeline has aborted, a Phase-2 task that was still in
\* progress performs no further steps and emits no further progress events.
C10_NoEventsAfterAbort ==
    [][(~isRunning /\ ~isRunning') =>
          (logs' = logs /\ tech' = tech /\ pricing' = pricing)]_vars

\* C11: the requirements a run works on after extraction were produced by a
\* call of the extraction service that went through retryOperation and
\* withTimeout and succeeded.
C11_RequirementsFromWrappedCall ==
    pc \in {"phase2", "respond"} =>
        /\ rPc = "done"
        /\ rResult.kind = "value"
        /\ rResult.val.src = "service"
        /\ rResult.val.products = upd.products

\* ---------------------------------------------------------------------
\* The matcher on given requirements and catalog
\* ---------------------------------------------------------------------
Matched ==
    pc \in {"calcMatched", "calcPriced", "calcDone", "calcRisked"}

Priced ==
    pc \in {"calcPriced", "calcDone"}

Min(a, b) ==
    IF a < b THEN a ELSE b

\* C12: every match score lies in [0, 100], every candidate list is sorted
\* non-increasing by score, and its length is at most min(3, |catalog|).
C12_ScoresBoundedSortedTop3 ==
    Matched =>
        \A i \in 1..Len(skuMatches) :
            /\ \A j \in 1..Len(skuMatches[i].matches) :
                  /\ RatLe(RatInt(0), skuMatches[i].matches[j].matchScore)
                  /\ RatLe(skuMatches[i].matches[j].matchScore, RatInt(100))
            /\ \A j \in 1..(Len(skuMatches[i].matches) - 1) :
                  RatLe(skuMatches[i].matches[j + 1].matchScore,
                        skuMatches[i].matches[j].matchScore)
            /\ Len(skuMatches[i].matches) <= Min(3, Len(skus))

\* C13: with a selected candidate, isMTO holds exactly when the selected
\* item's stock is below the requested quantity, and the selection is the
\* best candidate; with an empty catalog every result is made to order, has
\* no candidate and no selection.
C13_MtoIffStockShort ==
    Matched =>
        \A i \in 1..Len(skuMatches) :
            /\ skuMatches[i].selectedSkuId # "" =>
                  /\ skuMatches[i].matches # <<>>
                  /\ skuMatches[i].selectedSkuId = skuMatches[i].matches[1].sku.id
                  /\ skuMatches[i].isMTO <=>
                        (skuMatches[i].matches[1].sku.stockQty
                           < rfp.products[i].qty)
            /\ skus = <<>> =>
                  /\ skuMatches[i].isMTO
                  /\ skuMatches[i].matches = <<>>
                  /\ skuMatches[i].selectedSkuId = ""

AllDigits(t) ==
    t # <<>> /\ \A i \in 1..Len(t) : IsDigit(t[i])

\* the position of the dash of "<min>-<max>", 0 for any other text
RangeDash(t) ==
    IF \E k \in 1..Len(t) : /\ t[k] = "-"
                            /\ AllDigits(SubSeq(t, 1, k - 1))
                            /\ AllDigits(SubSeq(t, k + 1, Len(t)))
    THEN CHOOSE k \in 1..Len(t) : /\ t[k] = "-"
                                  /\ AllDigits(SubSeq(t, 1, k - 1))
                                  /\ AllDigits(SubSeq(t, k + 1, Len(t)))
    ELSE 0

\* 1 inside [min, max], else max(0, 1 - distance / (max - min))
RangeRule(min, max, v) ==
    IF RatLe(RatInt(min), v) /\ RatLe(v, RatInt(max)) THEN RatInt(1)
    ELSE IF max = min THEN RatInt(0)
    ELSE RatMax(RatInt(0),
                RatSub(RatInt(1),
                       RatDiv(IF RatLt(v, RatInt(min))
                              THEN RatSub(RatInt(min), v)
                              ELSE RatSub(v, RatInt(max)),
                              RatInt(max - min))))

\* the score written to details for a key
DetailScore(details, key) ==
    details[CHOOSE d \in 1..Len(details) : details[d].key = key].score

HasDetail(details, key) ==
    \E d \in 1..Len(details) : details[d].key = key

\* C14: a requirement value "<min>-<max>" scores, against a catalog number
\* v, 1 when min <= v <= max and max(0, 1 - distance / (max - min))
\* otherwise.
C14_RangeRule ==
    Matched =>
        \A i \in 1..Len(skuMatches) :
        \A j \in 1..Len(skuMatches[i].matches) :
        \A k \in 1..Len(rfp.products[i].params) :
            ( /\ RangeDash(rfp.products[i].params[k].val.text) > 0
              /\ Lookup(skuMatches[i].matches[j].sku.specs,
                        rfp.products[i].params[k].key).present
              /\ Lookup(skuMatches[i].matches[j].sku.specs,
                        rfp.products[i].params[k].key).val.isNum )
            => /\ HasDetail(skuMatches[i].matches[j].details,
                            rfp.products[i].params[k].key)
               /\ DetailScore(skuMatches[i].matches[j].details,
                              rfp.products[i].params[k].key)
                  = RangeRule(
                      DigitsValue(SubSeq(rfp.products[i].params[k].val.text, 1,
                          RangeDash(rfp.products[i].params[k].val.text) - 1)),
                      DigitsValue(SubSeq(rfp.products[i].params[k].val.text,
                          RangeDash(rfp.products[i].params[k].val.text) + 1,
                          Len(rfp.products[i].params[k].val.text))),
                      ParseFloat(Lookup(skuMatches[i].matches[j].sku.specs,
                                        rfp.products[i].params[k].key).val.text).val)

\* max(0, 1 - |c - r| / r): the closeness rule without its epsilon
ClosenessRule(r, c) ==
    RatMax(RatInt(0), RatSub(RatInt(1), RatDiv(RatAbs(RatSub(c, r)), r)))

\* C15: a positive requirement number r scores, against a catalog number c,
\* max(0, 1 - |c - r| / (r + epsilon)): 1 for c = r, and for c # r a value
\* below 1 that is within a thousandth of max(0, 1 - |c - r| / r).
C15_NumericCloseness ==
    Matched =>
        \A i \in 1..Len(skuMatches) :
        \A j \in 1..Len(skuMatches[i].matches) :
        \A k \in 1..Len(rfp.products[i].params) :
            ( /\ rfp.products[i].params[k].val.isNum
              /\ RatLt(RatInt(0),
                       ParseFloat(rfp.products[i].params[k].val.text).val)
              /\ Lookup(skuMatches[i].matches[j].sku.specs,
                        rfp.products[i].params[k].key).present
              /\ Lookup(skuMatches[i].matches[j].sku.specs,
                        rfp.products[i].params[k].key).val.isNum )
            => /\ HasDetail(skuMatches[i].matches[j].details,
                            rfp.products[i].params[k].key)
               /\ RatLe(RatAbs(RatSub(
                     DetailScore(skuMatches[i].matches[j].details,
                                 rfp.products[i].params[k].key),
                     ClosenessRule(
                         ParseFloat(rfp.products[i].params[k].val.text).val,
                         ParseFloat(Lookup(skuMatches[i].matches[j].sku.specs,
                             rfp.products[i].params[k].key).val.text).val))),
                        Rat(1, 1000))
               /\ ( ParseFloat(rfp.products[i].params[k].val.text).val
                      # ParseFloat(Lookup(skuMatches[i].matches[j].sku.specs,
                             rfp.products[i].params[k].key).val.text).val )
                  => RatLt(DetailScore(skuMatches[i].matches[j].details,
                                       rfp.products[i].params[k].key),
                           RatInt(1))

\* the sum of the per-parameter scores and the number of parameters with a
\* non-empty value, a key the SKU does not have counting 0
RECURSIVE ParamTotals(_, _)
ParamTotals(params, specs) ==
    IF params = <<>> THEN [total |-> RatInt(0), count |-> 0]
    ELSE LET rest == ParamTotals(Tail(params), specs)
             p == Head(params)
             found == Lookup(specs, p.key)
         IN IF ~p.val.isNum /\ p.val.text = <<>> THEN rest
            ELSE [total |-> RatAdd(rest.total,
                                   IF found.present
                                   THEN ParamScore(p.val, found.val)
                                   ELSE RatInt(0)),
                  count |-> rest.count + 1]

ParamMean(t) ==
    IF t.count = 0 THEN RatInt(0)
    ELSE RatMul(RatDiv(t.total, RatInt(t.count)), RatInt(100))

\* C16: the match score of a catalog item is (sum of per-parameter scores /
\* paramCount) * 100 over the parameters with a non-empty value, an absent
\* specification key contributing 0, and it is 0 when paramCount is 0.
C16_ScoreIsParamMean ==
    Matched =>
        \A i \in 1..Len(skuMatches) :
        \A j \in 1..Len(skuMatches[i].matches) :
            skuMatches[i].matches[j].matchScore
              = ParamMean(ParamTotals(rfp.products[i].params,
                                      skuMatches[i].matches[j].sku.specs))

\* the position of a catalog item in the catalog
CatalogIndex(sku) ==
    CHOOSE n \in 1..Len(skus) : skus[n] = sku

C18_LineArithmetic ==
    Priced =>
        /\ \A i \in 1..Len(skuMatches) :
              SelectedOf(skuMatches[i]).present =>
                 LET line == finalPricing.pricingTable[i]
                     selected == skuMatches[i].matches[SelectedOf(skuMatches[i]).at]
                 IN /\ line.qty = rfp.products[i].qty
                    /\ line.unitPrice = selected.sku.unitPrice
                    /\ line.productTotal = line.unitPrice * line.qty
                    /\ line.testCosts = TestCost(rfp.tests.items, line.qty)
                    /\ line.lineTotal = line.productTotal + line.testCosts
        /\ finalPricing.subtotal = SumLineTotals(finalPricing.pricingTable)

\* C19: logistics = 0.05 S, contingency = 0.03 S, taxes = 0.10 (S +
\* logistics + contingency), grandTotal = S + logistics + contingency +
\* taxes, which is 1.188 S and for S = 1000 gives 50, 30, 108 and 1188;
\* pricing the same inputs again gives the same breakdown.
C19_AdditiveSurcharges ==
    Priced =>
        /\ finalPricing.logistics = Rat(5 * finalPricing.subtotal, 100)
        /\ finalPricing.contingency = Rat(3 * finalPricing.subtotal, 100)
        /\ finalPricing.taxes = Rat(108 * finalPricing.subtotal, 1000)
        /\ finalPricing.grandTotal = Rat(1188 * finalPricing.subtotal, 1000)
        /\ finalPricing.subtotal = 1000 =>
              /\ finalPricing.logistics = RatInt(50)
              /\ finalPricing.contingency = RatInt(30)
              /\ finalPricing.taxes = RatInt(108)
              /\ finalPricing.grandTotal = RatInt(1188)
        /\ pc = "calcPriced" =>
              finalPricing = PricingResult(rfp.products, skus, rfp.tests.items)

\* a subtotal of 1000 has been priced
C19_Witness ==
    /\ Priced
    /\ finalPricing.subtotal = 1000
    /\ finalPricing.grandTotal = RatInt(1188)

\* the top scores of the requirements that have a candidate, added up
RECURSIVE SumCandidateScores(_)
SumCandidateScores(ms) ==
    IF ms = <<>> THEN RatInt(0)
    ELSE RatAdd(IF Head(ms).matches = <<>> THEN RatInt(0)
                ELSE Head(ms).matches[1].matchScore,
                SumCandidateScores(Tail(ms)))

\* the line totals of the requirements that have a selected candidate
RECURSIVE SumSelectedLines(_, _)
SumSelectedLines(ms, lines) ==
    IF ms = <<>> THEN 0
    ELSE (IF SelectedOf(Head(ms)).present THEN Head(lines).lineTotal ELSE 0)
         + SumSelectedLines(Tail(ms), Tail(lines))

\* C20: a requirement without selected candidate gets a manual-sourcing
\* line whose unit price, product total, test costs and line total are 0,
\* which adds nothing to the subtotal, and it is counted in the average
\* technical score with a contribution of 0.
C20_ManualLineZeroAndCounted ==
    /\ Priced =>
          /\ Len(finalPricing.pricingTable) = Len(skuMatches)
          /\ \A i \in 1..Len(skuMatches) :
                ~SelectedOf(skuMatches[i]).present =>
                   /\ finalPricing.pricingTable[i].skuModel = "Manual Source Req"
                   /\ finalPricing.pricingTable[i].notes = "Out of Scope"
                   /\ finalPricing.pricingTable[i].unitPrice = 0
                   /\ finalPricing.pricingTable[i].productTotal = 0
                   /\ finalPricing.pricingTable[i].testCosts = 0
                   /\ finalPricing.pricingTable[i].lineTotal = 0
          /\ finalPricing.subtotal
               = SumSelectedLines(skuMatches, finalPricing.pricingTable)
    /\ pc = "calcDone" =>
          /\ RatMul(strategy.avgTechScore, RatInt(Len(skuMatches)))
               = SumCandidateScores(skuMatches)
          /\ skuMatches = <<>> => strategy.avgTechScore = RatInt(0)

\* the strategy average has been taken over a requirement without candidate
\* together with one that has a candidate
C20_Witness ==
    /\ pc = "calcDone"
    /\ \E i, j \in 1..Len(skuMatches) :
          /\ ~SelectedOf(skuMatches[i]).present
          /\ finalPricing.pricingTable[i].lineTotal = 0
          /\ skuMatches[j].matches # <<>>
          /\ RatLt(RatInt(0), strategy.avgTechScore)

\* ---------------------------------------------------------------------
\* The empty catalog
\* ---------------------------------------------------------------------
\* C21: with an empty catalog runPricing fails and returns no cost
\* breakdown, while the matcher returns for every requirement a result with
\* an empty candidate list.
C21_EmptyCatalogPricingFails ==
    skus = <<>> =>
        /\ Matched =>
              /\ Len(skuMatches) = Len(rfp.products)
              /\ \A i \in 1..Len(skuMatches) : skuMatches[i].matches = <<>>
        /\ Priced => ~finalPricing.present

\* ---------------------------------------------------------------------
\* The risk assessor
\* ---------------------------------------------------------------------
\* runRiskAssessment has returned
Risked ==
    pc = "calcRisked"

\* some match result is flagged Made-To-Order
SomeMTO ==
    \E i \in 1..Len(skuMatches) : skuMatches[i].isMTO

\* the due date of the RFP is a date less than five days away
DueSoon ==
    /\ rfp.dueDate.given
    /\ rfp.dueDate.valid
    /\ rfp.dueDate.msLeft < 5 * 24 * 60 * 60 * 1000

\* C22: the risk score is 20, plus 30 iff some match result is flagged
\* MTO, plus 15 iff the due date is less than 5 days away, with one factor
\* per applied penalty; the level is High above 70, Medium above 40 up to
\* 70 and Low otherwise; the stricter mitigation is given exactly for High.
C22_RiskScoreAndLevel ==
    Risked =>
        /\ riskAnalysis.score
             = 20 + (IF SomeMTO THEN 30 ELSE 0) + (IF DueSoon THEN 15 ELSE 0)
        /\ Len(riskAnalysis.factors)
             = (IF SomeMTO THEN 1 ELSE 0) + (IF DueSoon THEN 1 ELSE 0)
        /\ SomeMTO <=> \E k \in 1..Len(riskAnalysis.factors) :
                          riskAnalysis.factors[k].factor = "Supply Chain"
        /\ DueSoon <=> \E k \in 1..Len(riskAnalysis.factors) :
                          riskAnalysis.factors[k].factor = "Timeline"
        /\ riskAnalysis.level
             = (IF riskAnalysis.score > 70 THEN <<"H", "i", "g", "h">>
                ELSE IF riskAnalysis.score > 40
                     THEN <<"M", "e", "d", "i", "u", "m">>
                     ELSE <<"L", "o", "w">>)
        /\ riskAnalysis.mitigation = "extension and liability cap"
             <=> riskAnalysis.level = <<"H", "i", "g", "h">>

\* both penalties have been applied: an MTO match and a due date one
\* millisecond inside the five days
C22_Witness ==
    /\ Risked
    /\ SomeMTO
    /\ DueSoon
    /\ rfp.dueDate.msLeft = 5 * 24 * 60 * 60 * 1000 - 1
    /\ riskAnalysis.score = 65
    /\ Len(riskAnalysis.factors) = 2

\* C30: the score returned by runRiskAssessment is 20, 35, 50 or 65; the
\* level is Low or Medium, never High, and the stricter mitigation is
\* never given.
C30_RiskNeverHigh ==
    Risked =>
        /\ riskAnalysis.score \in {20, 35, 50, 65}
        /\ riskAnalysis.level
             \in {<<"L", "o", "w">>, <<"M", "e", "d", "i", "u", "m">>}
        /\ riskAnalysis.mitigation = "standard warranty"

\* the assessor has seen two MTO match results and a due date that is near
C30_Witness ==
    /\ Risked
    /\ Cardinality({i \in 1..Len(skuMatches) : skuMatches[i].isMTO}) >= 2
    /\ DueSoon
    /\ riskAnalysis.level = <<"M", "e", "d", "i", "u", "m">>

\* ---------------------------------------------------------------------
\* The strategy agent
\* ---------------------------------------------------------------------
\* runStrategyAnalysis has returned
Analysed ==
    pc = "calcDone"

\* the mean of the top scores, 0 where there is no candidate or no
\* requirement
TechScore ==
    IF skuMatches = <<>> THEN RatInt(0)
    ELSE RatDiv(SumCandidateScores(skuMatches), RatInt(Len(skuMatches)))

\* the price score that goes with a position
PriceScoreOf(position) ==
    CASE position = "Low-Cost" -> 100
      [] position = "Premium" -> 40
      [] position = "Competitive" -> 75

\* techScore * 0.35 + priceScore * 0.45 + (100 - riskScore) * 0.10
\* + complianceScore * 0.10, before rounding
WeightedSum(techScore, priceScore, riskScore, complianceScore) ==
    RatAdd(RatAdd(RatDiv(RatMul(techScore, RatInt(35)), RatInt(100)),
                  Rat(45 * priceScore, 100)),
           RatAdd(Rat(10 * (100 - riskScore), 100),
                  Rat(10 * complianceScore, 100)))

\* the weighted sum of the inputs of the call that has returned
StatedSum ==
    WeightedSum(TechScore,
                PriceScoreOf(strategy.competitorAnalysis.position),
                riskAnalysis.score,
                IF complianceCheck.status = "Pass" THEN 100 ELSE 50)

\* the nearest integer of a fraction, the upper one for a half
Nearest(r) ==
    CHOOSE k \in {r.n \div r.d, r.n \div r.d + 1} :
        /\ 2 * k * r.d <= 2 * r.n + r.d
        /\ 2 * r.n + r.d < 2 * (k + 1) * r.d

\* C23: winProbability is an integer of [1, 99], the weighted sum of tech
\* score, price score, 100 - risk score and compliance score (100 for Pass,
\* 50 otherwise) rounded and clamped to [1, 99], for every risk score
\* including 0 and 100.
C23_WinProbabilityClamped ==
    Analysed =>
        LET rounded == Nearest(StatedSum)
        IN /\ strategy.winProbability \in 1..99
           /\ strategy.winProbability
                = Min(99, IF rounded < 1 THEN 1 ELSE rounded)

\* a call with risk score 0 whose rounded sum lies above 99 and was clamped
C23_Witness ==
    /\ Analysed
    /\ riskAnalysis.score = 0
    /\ Nearest(StatedSum) > 99
    /\ strategy.winProbability = 99

\* C29: for a grand total that is not negative and a variance of
\* [-0.05, 0.15), marketLow <= ourPrice <= marketHigh: the position is
\* Competitive and the price score 75, never Low-Cost (100) or Premium (40).
C29_AlwaysCompetitive ==
    Analysed =>
        /\ RatLe(strategy.competitorAnalysis.marketLow,
                 strategy.competitorAnalysis.ourPrice)
        /\ RatLe(strategy.competitorAnalysis.ourPrice,
                 strategy.competitorAnalysis.marketHigh)
        /\ strategy.competitorAnalysis.position = "Competitive"
        /\ strategy.competitorAnalysis.position \notin {"Low-Cost", "Premium"}
        /\ LET rounded ==
                   Nearest(WeightedSum(TechScore, 75, riskAnalysis.score,
                                       IF complianceCheck.status = "Pass"
                                       THEN 100 ELSE 50))
           IN strategy.winProbability
                = Min(99, IF rounded < 1 THEN 1 ELSE rounded)

\* a positive grand total with the market average 14 % above it, where
\* marketLow comes closest to our price
C29_Witness ==
    /\ Analysed
    /\ RatLt(RatInt(0), strategy.competitorAnalysis.ourPrice)
    /\ strategy.competitorAnalysis.marketAvg
         = RatMul(strategy.competitorAnalysis.ourPrice, Rat(114, 100))
    /\ RatLt(strategy.competitorAnalysis.marketLow,
             strategy.competitorAnalysis.ourPrice)
    /\ strategy.competitorAnalysis.position = "Competitive"

\* ---------------------------------------------------------------------
\* One requirement and one catalog item, end to end
\* ---------------------------------------------------------------------
\* the parameters {voltage: 11000, cooling: "ONAN"}, as a requirement's
\* params and as a catalog item's specs
VoltageAndCooling ==
    << [key |-> <<"v", "o", "l", "t", "a", "g", "e">>,
        val |-> NumVal(<<"1", "1", "0", "0", "0">>)],
       [key |-> <<"c", "o", "o", "l", "i", "n", "g">>,
        val |-> StrVal(<<"O", "N", "A", "N">>)] >>

\* one requirement {voltage: 11000, cooling: "ONAN"} of quantity 10 and a
\* catalog of one item with these specs, stock 20 and unit price 1000
OneTransformerOneItem ==
    /\ Len(rfp.products) = 1
    /\ Len(skus) = 1
    /\ rfp.products[1].qty = 10
    /\ skus[1].stockQty = 20
    /\ skus[1].unitPrice = 1000
    /\ rfp.products[1].params = VoltageAndCooling
    /\ skus[1].specs = VoltageAndCooling

\* C24: for this requirement and catalog the matcher yields match score 100
\* and isMTO false, the pricer productTotal 10000, and the technical score
\* that the strategy agent takes for the requirement is 100.
C24_EndToEndExample ==
    OneTransformerOneItem =>
        /\ Matched =>
              /\ Len(skuMatches) = 1
              /\ Len(skuMatches[1].matches) = 1
              /\ skuMatches[1].matches[1].matchScore = RatInt(100)
              /\ skuMatches[1].selectedSkuId = skus[1].id
              /\ skuMatches[1].isMTO = FALSE
        /\ Priced =>
              /\ Len(finalPricing.pricingTable) = 1
              /\ finalPricing.pricingTable[1].productTotal = 10000
        /\ Analysed => strategy.avgTechScore = RatInt(100)

\* the three agents have run on this requirement and catalog
C24_Witness ==
    /\ OneTransformerOneItem
    /\ Analysed
    /\ skuMatches[1].matches[1].matchScore = RatInt(100)
    /\ finalPricing.pricingTable[1].qty = 10
    /\ strategy.summary.techPercent = 100

\* ---------------------------------------------------------------------
\* The pricer's own matching against the matcher's
\* ---------------------------------------------------------------------
\* the pricer has one line per requirement, in the order of the
\* requirements, and the matcher one result per requirement
LinePerRequirement ==
    /\ Len(finalPricing.pricingTable) = Len(rfp.products)
    /\ Len(skuMatches) = Len(rfp.products)
    /\ \A i \in 1..Len(rfp.products) :
          /\ finalPricing.pricingTable[i].itemNo = rfp.products[i].itemNo
          /\ skuMatches[i].itemNo = rfp.products[i].itemNo

\* line i has the model and unit price of the candidate the matcher
\* selected for requirement i, or is the manual-sourcing line when the
\* matcher has no candidate
LineOfSelected(i) ==
    IF skuMatches[i].matches = <<>>
    THEN finalPricing.pricingTable[i].skuModel = "Manual Source Req"
    ELSE /\ finalPricing.pricingTable[i].skuModel # "Manual Source Req"
         /\ \E j \in 1..Len(skuMatches[i].matches) :
               /\ skuMatches[i].matches[j].sku.id = skuMatches[i].selectedSkuId
               /\ finalPricing.pricingTable[i].skuModel
                    = skuMatches[i].matches[j].sku.modelName
               /\ finalPricing.pricingTable[i].unitPrice
                    = skuMatches[i].matches[j].sku.unitPrice

\* C28 (as stated): runPricing emits one line per requirement in
\* requirement order, with the model and unit price of the candidate that
\* runTechnicalMatching selects (the manual-sourcing line exactly when the
\* matcher has no candidate), and every line carries the MTO note exactly
\* when the matcher's isMTO is true.
C28_MtoNoteIffIsMTO ==
    Priced =>
        /\ LinePerRequirement
        /\ \A i \in 1..Len(skuMatches) :
              /\ LineOfSelected(i)
              /\ finalPricing.pricingTable[i].notes = "MTO: 4-6 Weeks"
                   <=> skuMatches[i].isMTO

\* C28 (amended): as above, but the MTO note goes with isMTO on the lines
\* that have a candidate only; the manual-sourcing line carries the note
\* "Out of Scope" while the matcher's isMTO is true.
C28_PricerAgreesWithMatcher ==
    Priced =>
        /\ LinePerRequirement
        /\ \A i \in 1..Len(skuMatches) :
              /\ LineOfSelected(i)
              /\ IF skuMatches[i].matches = <<>>
                 THEN /\ skuMatches[i].isMTO
                      /\ finalPricing.pricingTable[i].notes = "Out of Scope"
                 ELSE finalPricing.pricingTable[i].notes
                        = (IF skuMatches[i].isMTO THEN "MTO: 4-6 Weeks"
                           ELSE "Ex-Stock: 1-2 Weeks")

\* the pricer has priced a requirement with several candidates that is
\* MTO, next to one in stock
C28_Witness ==
    /\ Priced
    /\ \E i, k \in 1..Len(skuMatches) :
          /\ Len(skuMatches[i].matches) >= 2
          /\ skuMatches[i].isMTO
          /\ finalPricing.pricingTable[i].notes = "MTO: 4-6 Weeks"
          /\ skuMatches[k].matches # <<>>
          /\ ~skuMatches[k].isMTO
          /\ finalPricing.pricingTable[k].notes = "Ex-Stock: 1-2 Weeks"

\* ---------------------------------------------------------------------
\* The status of the RFP after a run
\* ---------------------------------------------------------------------
\* runPipeline has returned (its finally block has run) at least once and
\* no run is in progress
RunFinished ==
    /\ pc = "idle"
    /\ runs > 0
    /\ ~isRunning
    /\ activeAgents = {}

\* the run that finished last ended in the catch block: setLogs([]) at the
\* start of a run leaves only the entries of the last run
LastRunFailed ==
    /\ RunFinished
    /\ \E k \in 1..Len(logs) :
          logs[k] = LogEntry("Main Agent", "error", "pipeline")

\* C25: after any sequence of runs on the same RFP the status is COMPLETED
\* only if the run that finished last succeeded; a failed run leaves the
\* RFP neither COMPLETED nor with a finalResponse computed from products
\* other than the ones stored on the RFP.
C25_CompletedOnlyAfterSuccess ==
    LastRunFailed =>
        /\ rfp.status # "Completed"
        /\ rfp.finalResponse.present
             => rfp.finalResponse = PricingOf(rfp.products, skus)

\* C26: once runPipeline has finished, by success or by an error in any
\* phase, the status is COMPLETED or FAILED and no longer PROCESSING.
C26_StatusLeavesProcessing ==
    RunFinished => rfp.status \in {"Completed", "Failed"}

\* ---------------------------------------------------------------------
\* withTimeout decides once
\* ---------------------------------------------------------------------
\* everything but the number of wrapped promises still running
AllButStale ==
    <<rPc, retries, delay, argRetries, argDelay, rResult, calls, waits,
      wtMs, wtFallback, timerArmed, opOut, raceWinner, innerOut, pipeVars,
      logs, coreVars>>

\* C27: the outcome of withTimeout is decided once, by the event that comes
\* first. When the wrapped promise settles first the timer is cleared, and
\* neither the fallback nor the timeout error follows; when the deadline
\* fires first, the later value or error of the operation is discarded: it
\* changes neither the outcome nor any state of the pipeline. (A step to
\* rPc = "calling" is the next call of withTimeout.)
C27_DecidedOnce ==
    /\ [](raceWinner # "none" => ~timerArmed)
    /\ [][/\ stale' < stale => UNCHANGED AllButStale
          /\ (raceWinner # "none" /\ rPc' # "calling")
                => (raceWinner' = raceWinner /\ opOut' = opOut)]_vars

\* the deadline fired first, the caller got the timer's outcome, and the
\* operation that was still running has settled since
C27_Witness ==
    /\ raceWinner = "timer"
    /\ opOut = TimerOutcome(wtMs, wtFallback)
    /\ calls > 0
    /\ stale = 0
====
